---- MODULE Spec2Model ----
(***************************************************************************)
(* Model of the autoshoper backend: the strategy-scored recommendation     *)
(* engine (api/services/recommendationService, stored in                   *)
(* geminiDataTransformer.js from line 232 on), its HTTP controller, and    *)
(* the Gemini product search: its candidate filter, the search function,   *)
(* the storage of its results and the two search routes.                   *)
(*                                                                         *)
(* Numbers.  JavaScript numbers are modelled exactly where the code's      *)
(* arithmetic is rational: a score or a confidence is kept in hundredths   *)
(* (the code returns Math.round(x * 100) / 100), a rating in tenths, a     *)
(* price in whole currency units.  The two non-finite results the scoring  *)
(* code can produce, NaN and +Infinity, are kept as tagged values.         *)
(***************************************************************************)
EXTENDS Integers, Sequences, FiniteSets, TLC

VARIABLES
    prodOf,           \* productService: what getProductById answers per id
    anOf,             \* commentAnalysisService: what getCommentAnalysis answers per id
    pc,               \* position of the request handler
    req,              \* the request body: [products, strategy]
    idx,              \* position of the for-of loop in productIds
    product,          \* the local `product` of the current iteration
    recommendations,  \* the local `recommendations` array
    res,              \* the HTTP response: [status, body]
    calls,            \* resolver calls made so far, in order (observation only)
    fIn,              \* candidate filter: the candidate list given
    fStrategy,        \* candidate filter: the search strategy given
    fOut,             \* candidate filter: the list returned
    fpc,              \* candidate filter: "idle" / "done"
    sIn,              \* scorer: [product, analysis, strategy] given
    sOut,             \* scorer: the score returned
    spc,              \* scorer: "idle" / "done"
    gIn,              \* generateRecommendations, per invocation: [productIds, strategy]
    gpc,              \* per invocation: position in generateRecommendations
    gIdx,             \* per invocation: position of the for-of loop
    gProduct,         \* per invocation: the local `product`
    gRecs,            \* per invocation: the local `recommendations` array
    gOut,             \* per invocation: the list the call resolved to
    sortMemo,         \* what Array.prototype.sort answered so far: <<array, sorted>>
    jIn,              \* justification: the commentAnalysis given
    jOut,             \* justification: [pros, cons, confidence] computed from it
    jpc,              \* justification: "idle" / "done"
    stIn,             \* storeGeminiProducts: the products given
    stIdx,            \* storeGeminiProducts: position of the for-of loop
    stResults,        \* storeGeminiProducts: the local `results` [stored, errors]
    stCalls,          \* createProduct calls so far: [name, outcome], in order
    stDb,             \* the products table: names of the rows inserted
    stpc,             \* storeGeminiProducts: "idle" / "storing" / "returned" / "raised"
    srIn,             \* searchProductsWithGemini: [customerInput, strategy, reply]
    srThrown,         \* message of the error thrown inside its try block, "" if none
    srOut,            \* what the call did: [outcome, products, success, error]
    srpc,             \* "idle" / "static" (geminiProductSearch.js ran) / "gemini" (the TypeScript one ran)
    rtReq,            \* search routes: the request body [customerInput, strategy, storeResults]
    rtRes,            \* search routes: the response [status, success, error, products, stored]
    rtCalls,          \* search routes: the service functions called, in order
    rtDb,             \* search routes: names of the rows inserted in the products table
    rtpc,             \* search routes: "idle" / "search" / "search-only" (answered by that route)
    tIn,              \* transformGeminiToSupabase: the Gemini product given
    tOut,             \* transformGeminiToSupabase: the record returned, or Threw
    tpc,              \* transformGeminiToSupabase: "idle" / "done"
    bIn,              \* batchProcessGeminiProducts: [products, batchSize] given
    bI,               \* batchProcessGeminiProducts: the loop index i
    bAll,             \* batchProcessGeminiProducts: the local `allResults`
    bpc,              \* "idle" / "loop" / "store" (inside storeGeminiProductsWithMetadata) / "returned"
    mBatch,           \* storeGeminiProductsWithMetadata: the products given
    mIdx,             \* storeGeminiProductsWithMetadata: position of the for-of loop
    mResults,         \* storeGeminiProductsWithMetadata: the local `results`
    mCreated,         \* createProduct calls of the current call: [data, outcome]
    bLog,             \* the calls of storeGeminiProductsWithMetadata so far (observation only)
    kIn,              \* searchAndStoreProducts: [customerInput, strategy, reply, storeResults]
    kProducts,        \* searchAndStoreProducts: searchResult.products
    kIdx,             \* its storeGeminiProducts: position of the for-of loop
    kResults,         \* its storeGeminiProducts: the local `results`
    kAnswers,         \* what createProduct answered per product: [name, error]
    kOut,             \* what searchAndStoreProducts resolved to
    kpc,              \* searchAndStoreProducts: "idle" / "storing" / "returned"
    hProducts,        \* Home: the state `products` (ids of the search results on display)
    hResultsNo,       \* Home: how many search results were installed so far (observation only)
    hSelected,        \* Home: the state `selectedProducts`
    hLoading,         \* Home: the state `isLoading`
    hRecs,            \* Home: the state `recommendations`: [products, results] of the request answered
    hShow,            \* Home: the state `showRecommendations`
    hSearching,       \* number of searchProducts requests in flight
    hSearches,        \* number of searches submitted so far
    hAnalyzing,       \* the generateRecommendations requests in flight
    hAnalyses         \* number of recommendation requests sent so far

vars == <<prodOf, anOf, pc, req, idx, product, recommendations, res, calls,
          fIn, fStrategy, fOut, fpc, sIn, sOut, spc,
          gIn, gpc, gIdx, gProduct, gRecs, gOut, sortMemo,
          jIn, jOut, jpc,
          stIn, stIdx, stResults, stCalls, stDb, stpc,
          srIn, srThrown, srOut, srpc,
          rtReq, rtRes, rtCalls, rtDb, rtpc,
          tIn, tOut, tpc,
          bIn, bI, bAll, bpc, mBatch, mIdx, mResults, mCreated, bLog,
          kIn, kProducts, kIdx, kResults, kAnswers, kOut, kpc,
          hProducts, hResultsNo, hSelected, hLoading, hRecs, hShow,
          hSearching, hSearches, hAnalyzing, hAnalyses>>

rankerVars == <<prodOf, anOf, pc, req, idx, product, recommendations, res, calls>>
filterVars == <<fIn, fStrategy, fOut, fpc>>
scorerVars == <<sIn, sOut, spc>>
pairVars == <<gIn, gpc, gIdx, gProduct, gRecs, gOut, sortMemo>>
\* the variables of the components other than controller, filter and scorer
justVars == <<jIn, jOut, jpc>>
storeVars == <<stIn, stIdx, stResults, stCalls, stDb, stpc>>
searchVars == <<srIn, srThrown, srOut, srpc>>
routeVars == <<rtReq, rtRes, rtCalls, rtDb, rtpc>>
transformVars == <<tIn, tOut, tpc>>
\* the components of the Gemini storage pipeline and of the Home page
batchVars == <<bIn, bI, bAll, bpc, mBatch, mIdx, mResults, mCreated, bLog>>
chainVars == <<kIn, kProducts, kIdx, kResults, kAnswers, kOut, kpc>>
homeVars == <<hProducts, hResultsNo, hSelected, hLoading, hRecs, hShow,
              hSearching, hSearches, hAnalyzing, hAnalyses>>
moreVars == <<transformVars, batchVars, chainVars, homeVars>>
otherThanTransform == <<batchVars, chainVars, homeVars>>
otherThanBatch == <<transformVars, chainVars, homeVars>>
otherThanChain == <<transformVars, batchVars, homeVars>>
otherThanHome == <<transformVars, batchVars, chainVars>>
lateVars == <<pairVars, justVars, storeVars, searchVars, routeVars>>

(***************************************************************************)
(* Bounds                                                                  *)
(***************************************************************************)
\* longest product id list of a recommendation request
MaxLen == 3
\* the same for the store of four ids (SpecWide)
MaxLenWide == 4
\* longest candidate list given to the filter
MaxCand == 2
\* longest product id list of two concurrent generateRecommendations calls
MaxPair == 3
\* longest positiveAspects and commonIssues of an analysis given to the
\* justification functions
MaxAspects == 4
MaxIssues == 3
\* longest product list given to storeGeminiProducts
MaxStore == 3
\* longest product list given to batchProcessGeminiProducts
MaxBatch == 3
\* how far below 0 the loop index of batchProcessGeminiProducts is followed
MaxBackward == 3
\* longest candidate list the model answers searchAndStoreProducts with
MaxChain == 2
\* searches submitted and recommendation requests sent on the Home page
MaxSearches == 2
MaxAnalyses == 2

(***************************************************************************)
(* JavaScript values                                                       *)
(***************************************************************************)
\* a finite number, in the unit of its field
Num(n) == [tag |-> "num", v |-> n]
NaN == [tag |-> "nan", v |-> 0]
PosInf == [tag |-> "inf", v |-> 0]
Undefined == [tag |-> "undef", v |-> 0]
\* a string that is not a number (the value v only tells two strings apart)
Str(n) == [tag |-> "str", v |-> n]

IsNum(x) == x.tag = "num"

\* JS  a >= b  on numbers: false when either side is NaN
JsGeq(a, b) ==
    CASE a.tag = "nan" \/ b.tag = "nan" -> FALSE
      [] a.tag = "inf" -> TRUE
      [] b.tag = "inf" -> FALSE
      [] OTHER -> a.v >= b.v

\* JS  a === b  on numbers: NaN equals nothing
JsEq(a, b) ==
    CASE a.tag = "nan" \/ b.tag = "nan" -> FALSE
      [] OTHER -> a = b

\* Math.round(n / d) for n >= 0, d > 0: halves round up.  The quotient is taken
\* exactly; a binary double can land just below a half the exact value reaches
\* (0.285 * 100 is 28.499999999999996), which the callers account for where
\* their inputs meet such a tie.
RoundDiv(n, d) == (2 * n + d) \div (2 * d)

Min(a, b) == IF a < b THEN a ELSE b
Max(a, b) == IF a > b THEN a ELSE b

(***************************************************************************)
(* Strategy scorer                                                         *)
(***************************************************************************)
Strategies == {"fancy", "cost-effective", "price-priority"}

\* brandScores[brand] || 0.5, in hundredths
getBrandScore(brand) ==
    CASE brand = "Apple" -> 95
      [] brand = "Samsung" -> 90
      [] brand = "Google" -> 85
      [] brand = "OnePlus" -> 80
      [] brand = "Xiaomi" -> 70
      [] OTHER -> 50

PremiumWords == {"premium", "luxury", "high-end", "premium quality"}
DesignWords == {"design", "beautiful", "elegant", "stylish"}
DurableWords == {"durable", "long-lasting", "reliable", "sturdy"}
WorthItWords == {"worth it", "good value", "great value", "worth every penny"}

\* k.toLowerCase().includes(word), tabulated for the keyword texts in use
KeywordIncludes(k, word) ==
    <<k, word>> \in {
        <<"premium", "premium">>,
        <<"Premium Quality", "premium">>,
        <<"Premium Quality", "premium quality">>,
        <<"design", "design">>,
        <<"elegant design", "design">>,
        <<"elegant design", "elegant">>,
        <<"durable", "durable">>,
        <<"reliable", "reliable">>,
        <<"great value", "great value">>,
        <<"worth it", "worth it">> }

RECURSIVE SumFrequency(_, _, _)
SumFrequency(keywords, targetWords, n) ==
    IF n = 0 THEN 0
    ELSE SumFrequency(keywords, targetWords, n - 1)
         + (IF \E w \in targetWords : KeywordIncludes(keywords[n].keyword, w)
            THEN keywords[n].frequency ELSE 0)

\* keywords.filter(k => targetWords.some(...)).reduce((sum, k) => sum + k.frequency, 0)
countKeywordMentions(keywords, targetWords) ==
    SumFrequency(keywords, targetWords, Len(keywords))

\* The four terms are added in binary doubles, and 0.3 has no exact double:
\* at an exact tie (a sum of the form x.xx5) the double sum can lie just below
\* the half and Math.round then rounds it down (0.95 * 0.3 * 100 is
\* 28.499999999999996).  The ties of the inputs in use where it does, as
\* <<brand score in hundredths, min(P,100), min(Q,500), min(D,100)>>; at the
\* other ties in use (<<95,100,0,40>>, <<95,100,500,40>>, <<50,30,500,0>>) the
\* double sum reaches the half.
FancySumBelowTie == { <<95, 0, 0, 0>>, <<95, 0, 500, 0>>, <<50, 30, 0, 0>> }

\* score * 100 = 30*brand + 25*min(P/100,1) + 25*min(Q/500,1) + 20*min(D/100,1)
calculateFancyScore(p, a) ==
    LET brand100 == getBrandScore(p.brand)
        premium == countKeywordMentions(a.topKeywords, PremiumWords)
        quality == IF Len(a.qualityIndicators) > 0
                   THEN a.qualityIndicators[1].mentions ELSE 0
        design == countKeywordMentions(a.topKeywords, DesignWords)
        n == 150 * brand100 + 125 * Min(premium, 100) + 25 * Min(quality, 500)
             + 100 * Min(design, 100)
        terms == <<brand100, Min(premium, 100), Min(quality, 500), Min(design, 100)>>
    IN Num(IF terms \in FancySumBelowTie THEN RoundDiv(n, 500) - 1
           ELSE RoundDiv(n, 500))

\* score * 100 = 40*((priceScore + rating/5)/2) + 30*min(dur/100,1)
\*               + 20*min(worth/50,1) + 10*positive/totalComments
\* The last quotient is not guarded: 0/0 is NaN and x/0 is Infinity for x > 0.
calculateCostEffectiveScore(p, a) ==
    LET m == Max(0, 2000 - p.price)
        durability == countKeywordMentions(a.topKeywords, DurableWords)
        worthIt == countKeywordMentions(a.topKeywords, WorthItWords)
        rest == m + 40 * a.averageRating + 30 * Min(durability, 100)
                + 40 * Min(worthIt, 50)
        positive == a.sentimentDistribution.positive
    IN IF a.totalComments = 0
       THEN (IF positive = 0 THEN NaN ELSE PosInf)
       ELSE Num(RoundDiv(a.totalComments * rest + 1000 * positive,
                         100 * a.totalComments))

\* score * 100 = 50*max(0,(1500-price)/1500) + 30*quality + 20*max(0, 1 - issues/10)
\* the same with the price term left negative above 1500
calculatePricePriorityScoreUnclamped(p, a) ==
    LET m == 1500 - p.price
        quality == IF a.averageRating >= 40 THEN 1800 ELSE 45 * a.averageRating
        issue == Max(0, 10 - Len(a.commonIssues))
    IN Num(RoundDiv(2 * m + quality + 120 * issue, 60))

calculatePricePriorityScore(p, a) ==
    LET m == Max(0, 1500 - p.price)
        quality == IF a.averageRating >= 40 THEN 1800 ELSE 45 * a.averageRating
        issue == Max(0, 10 - Len(a.commonIssues))
    IN Num(RoundDiv(2 * m + quality + 120 * issue, 60))

calculateStrategyScore(p, a, strategy) ==
    CASE strategy = "fancy" -> calculateFancyScore(p, a)
      [] strategy = "cost-effective" -> calculateCostEffectiveScore(p, a)
      [] strategy = "price-priority" -> calculatePricePriorityScore(p, a)
      [] OTHER -> Num(0)

(***************************************************************************)
(* Recommendation ranker                                                   *)
(***************************************************************************)
\* a reasoning sentence: its template, the text and the numbers it interpolates
Sentence(template, text, numbers) ==
    [template |-> template, text |-> text, numbers |-> numbers]

generateReasoning(p, a, strategy) ==
    CASE strategy = "fancy" ->
           << Sentence("Premium brand reputation: ${brand}", p.brand, <<>>),
              Sentence("High-quality build with ${mentions} positive mentions", "",
                       \* qualityIndicators[0]?.mentions || 0
                       <<IF Len(a.qualityIndicators) > 0
                         THEN a.qualityIndicators[1].mentions ELSE 0>>),
              Sentence("Elegant design praised by users", "", <<>>) >>
      [] strategy = "cost-effective" ->
           << Sentence("Excellent value at $${price} with ${averageRating}/5 rating", "",
                       <<p.price, a.averageRating>>),
              Sentence("Durable and reliable based on user feedback", "", <<>>),
              Sentence("Worth the investment for long-term use", "", <<>>) >>
      [] strategy = "price-priority" ->
           << Sentence("Most affordable option at $${price}", "", <<p.price>>),
              Sentence("Maintains quality with ${averageRating}/5 rating", "",
                       <<a.averageRating>>),
              Sentence("Good basic functionality without premium markup", "", <<>>) >>
      [] OTHER -> << >>

\* array.slice(0, n)
Slice(s, n) == SubSeq(s, 1, Min(n, Len(s)))

\* an array is truthy in JavaScript, the empty one too
JsTruthyArray(s) == TRUE

\* positiveAspects.slice(0, 3) || [...]
generatePros(a) ==
    LET s == Slice(a.positiveAspects, 3)
    IN IF JsTruthyArray(s) THEN s
       ELSE <<"Good overall quality", "Reliable performance">>

\* commonIssues.slice(0, 2) || [...]
generateCons(a) ==
    LET s == Slice(a.commonIssues, 2)
    IN IF JsTruthyArray(s) THEN s ELSE <<"Minor issues reported">>

\* the same without the cap of the review score at 1
calculateConfidenceUncapped(a) ==
    Num(RoundDiv(3 * a.totalComments + 40 * a.averageRating, 50))

\* Math.round((min(total/1000, 1) * 0.6 + rating/5 * 0.4) * 100) / 100, in hundredths
calculateConfidence(a) ==
    Num(RoundDiv(3 * Min(a.totalComments, 1000) + 40 * a.averageRating, 50))

\* the record pushed per product; ranking 0 until the list is sorted
Recommendation(productId, p, a, strategy) ==
    [ productId |-> productId,
      score |-> calculateStrategyScore(p, a, strategy),
      ranking |-> 0,
      reasoning |-> generateReasoning(p, a, strategy),
      confidence |-> calculateConfidence(a),
      pros |-> generatePros(a),
      cons |-> generateCons(a) ]

\* The comparator (a, b) => b.score - a.score as Array.prototype.sort reads it:
\* the sign of the difference, and 0 when the difference is NaN
\* (NaN on either side, or Infinity - Infinity).
SortCompare(a, b) ==
    CASE a.score.tag = "nan" \/ b.score.tag = "nan" -> 0
      [] a.score.tag = "inf" /\ b.score.tag = "inf" -> 0
      [] b.score.tag = "inf" -> 1
      [] a.score.tag = "inf" -> -1
      [] b.score.v > a.score.v -> 1
      [] b.score.v < a.score.v -> -1
      [] OTHER -> 0

\* ECMAScript: the comparator is consistent for the elements of the array
ConsistentComparator(recs) ==
    \A i, j, k \in 1..Len(recs) :
        /\ (SortCompare(recs[i], recs[j]) = 0 /\ SortCompare(recs[j], recs[k]) = 0
              => SortCompare(recs[i], recs[k]) = 0)
        /\ (SortCompare(recs[i], recs[j]) < 0 /\ SortCompare(recs[j], recs[k]) < 0
              => SortCompare(recs[i], recs[k]) < 0)

\* the place element i takes in a stable sort
StablePlace(recs, i) ==
    1 + Cardinality({ j \in 1..Len(recs) :
            \/ SortCompare(recs[j], recs[i]) < 0
            \/ (SortCompare(recs[j], recs[i]) = 0 /\ j < i) })

StableSort(recs) ==
    [ k \in 1..Len(recs) |->
        recs[CHOOSE i \in 1..Len(recs) : StablePlace(recs, i) = k] ]

\* recommendations.sort((a, b) => b.score - a.score): stable for a consistent
\* comparator; otherwise the order is implementation-defined, any permutation.
SortOutcomes(recs) ==
    IF ConsistentComparator(recs)
    THEN { StableSort(recs) }
    ELSE { [ k \in 1..Len(recs) |-> recs[perm[k]] ] : perm \in Permutations(1..Len(recs)) }

\* the forEach below with the index taken as the ranking (no + 1)
AssignRankingsFromZero(recs) ==
    [ k \in 1..Len(recs) |-> [ recs[k] EXCEPT !.ranking = k - 1 ] ]

\* recommendations.forEach((rec, index) => { rec.ranking = index + 1 })
AssignRankings(recs) ==
    [ k \in 1..Len(recs) |-> [ recs[k] EXCEPT !.ranking = k ] ]

(***************************************************************************)
(* The two stores behind the resolvers                                     *)
(***************************************************************************)
Found(x) == [tag |-> "ok", val |-> x]
\* the resolver answers null: no such id
Null == [tag |-> "null"]
\* the resolver's promise rejects
Throws == [tag |-> "throw"]

Ids == {"1", "2", "3"}

Keyword(k, f) == [keyword |-> k, frequency |-> f]
Indicator(i, m) == [indicator |-> i, mentions |-> m]

\* mockProducts '1' and '5', and a product at the price where priceScore is 0
ProductApple == [price |-> 1199, brand |-> "Apple"]
ProductXiaomi == [price |-> 699, brand |-> "Xiaomi"]
ProductPlain == [price |-> 2000, brand |-> "Acme"]

\* mockCommentAnalysis '1'
AnalysisApple ==
    [ totalComments |-> 2547, averageRating |-> 48,
      sentimentDistribution |-> [positive |-> 2150, negative |-> 150, neutral |-> 247],
      topKeywords |-> << Keyword("premium", 892), Keyword("quality", 756),
                         Keyword("camera", 634), Keyword("battery", 521),
                         Keyword("design", 487) >>,
      qualityIndicators |-> << Indicator("excellent build quality", 445),
                               Indicator("premium materials", 389) >>,
      commonIssues |-> <<"expensive", "heavy", "learning curve">>,
      positiveAspects |-> <<"build quality", "camera system", "battery life",
                            "display", "performance">> ]

\* mockCommentAnalysis '5'
AnalysisXiaomi ==
    [ totalComments |-> 567, averageRating |-> 44,
      sentimentDistribution |-> [positive |-> 456, negative |-> 67, neutral |-> 44],
      topKeywords |-> << Keyword("affordable", 234), Keyword("camera", 198),
                         Keyword("battery", 167), Keyword("value", 145),
                         Keyword("miui", 123) >>,
      qualityIndicators |-> << Indicator("affordable price", 167),
                               Indicator("good camera", 145) >>,
      commonIssues |-> <<"miui ads", "bloatware", "availability">>,
      positiveAspects |-> <<"price", "camera", "battery life", "build quality",
                            "features">> ]

\* a product nobody has reviewed yet
AnalysisNoReviews ==
    [ totalComments |-> 0, averageRating |-> 0,
      sentimentDistribution |-> [positive |-> 0, negative |-> 0, neutral |-> 0],
      topKeywords |-> << >>, qualityIndicators |-> << >>,
      commonIssues |-> << >>, positiveAspects |-> << >> ]

\* what the two stores can hold for one id: <<getProductById, getCommentAnalysis>>
Catalogue ==
    { <<Found(ProductApple), Found(AnalysisApple)>>,
      <<Found(ProductXiaomi), Found(AnalysisXiaomi)>>,
      <<Found(ProductPlain), Found(AnalysisNoReviews)>>,
      <<Null, Found(AnalysisXiaomi)>>,
      <<Found(ProductApple), Null>>,
      <<Found(ProductXiaomi), Throws>> }

\* mockProducts.find(p => p.id === id) || null
getProductById(id) == prodOf[id]

\* mockCommentAnalysis[productId] || null
getCommentAnalysis(id) == anOf[id]

(***************************************************************************)
(* POST /api/recommendations/generate                                      *)
(***************************************************************************)
\* the product id lists a request can carry: ids of the store, in any order,
\* repeated or not
ProductLists(maxLen) == UNION { [1..n -> DOMAIN prodOf] : n \in 0..maxLen }

\* "" stands for a missing (falsy) strategy, "luxury" for an unknown variant
RequestStrategies == Strategies \cup {"luxury", ""}

NoResponse == [status |-> 0, error |-> "", body |-> << >>]
ErrorResponse(status, error) == [status |-> status, error |-> error, body |-> << >>]
JsonResponse(body) == [status |-> 200, error |-> "", body |-> body]

Call(fn, id) == [fn |-> fn, id |-> id]

RankerInit ==
    /\ \E store \in [Ids -> Catalogue] :
          /\ prodOf = [id \in Ids |-> store[id][1]]
          /\ anOf = [id \in Ids |-> store[id][2]]
    /\ pc = "idle"
    /\ req = [isArray |-> FALSE, products |-> << >>, strategy |-> ""]
    /\ idx = 0
    /\ product = Null
    /\ recommendations = << >>
    /\ res = NoResponse
    /\ calls = << >>

\* getRecommendations up to the call of generateRecommendations and its first
\* await, for a request whose product list is drawn from `lists`
GetRecommendationsOn(lists) ==
    /\ pc = "idle"
    /\ \E isArray \in BOOLEAN, products \in lists, strategy \in RequestStrategies :
          /\ (~isArray => products = << >>)
          /\ req' = [isArray |-> isArray, products |-> products, strategy |-> strategy]
          /\ IF ~isArray \/ Len(products) = 0
             THEN /\ res' = ErrorResponse(400, "Products array is required")
                  /\ pc' = "done"
                  /\ idx' = idx
             ELSE IF strategy = ""
             THEN /\ res' = ErrorResponse(400, "Strategy is required")
                  /\ pc' = "done"
                  /\ idx' = idx
             ELSE /\ res' = res
                  /\ pc' = "getProduct"
                  /\ idx' = 1
    /\ UNCHANGED <<prodOf, anOf, product, recommendations, calls>>
    /\ UNCHANGED <<filterVars, scorerVars, lateVars, moreVars>>

GetRecommendations == GetRecommendationsOn(ProductLists(MaxLen))

GetRecommendationsWide == GetRecommendationsOn(ProductLists(MaxLenWide))

\* const product = await getProductById(productId); a rejection reaches the
\* controller's catch
AwaitProduct ==
    /\ pc = "getProduct"
    /\ LET productId == req.products[idx]
           answer == getProductById(productId)
       IN /\ calls' = Append(calls, Call("getProductById", productId))
          /\ IF answer.tag = "throw"
             THEN /\ res' = ErrorResponse(500, "Failed to generate recommendations")
                  /\ pc' = "done"
                  /\ product' = product
             ELSE /\ product' = answer
                  /\ pc' = "getAnalysis"
                  /\ res' = res
    /\ UNCHANGED <<prodOf, anOf, req, idx, recommendations>>
    /\ UNCHANGED <<filterVars, scorerVars, lateVars, moreVars>>

\* const commentAnalysis = await getCommentAnalysis(productId), the rest of the
\* loop body and, after the last id, the sort, the rankings and res.json
AwaitAnalysis ==
    /\ pc = "getAnalysis"
    /\ LET productId == req.products[idx]
           answer == getCommentAnalysis(productId)
           pushed == IF product.tag = "null" \/ answer.tag = "null"
                     THEN recommendations
                     ELSE Append(recommendations,
                                 Recommendation(productId, product.val, answer.val,
                                                req.strategy))
       IN /\ calls' = Append(calls, Call("getCommentAnalysis", productId))
          /\ IF answer.tag = "throw"
             THEN /\ res' = ErrorResponse(500, "Failed to generate recommendations")
                  /\ pc' = "done"
                  /\ UNCHANGED <<idx, recommendations>>
             ELSE IF idx < Len(req.products)
             THEN /\ recommendations' = pushed
                  /\ idx' = idx + 1
                  /\ pc' = "getProduct"
                  /\ res' = res
             ELSE \E sorted \in SortOutcomes(pushed) :
                  /\ recommendations' = AssignRankings(sorted)
                  /\ res' = JsonResponse(recommendations')
                  /\ pc' = "done"
                  /\ idx' = idx
    /\ UNCHANGED <<prodOf, anOf, req, product>>
    /\ UNCHANGED <<filterVars, scorerVars, lateVars, moreVars>>

(***************************************************************************)
(* generateRecommendations, two invocations on one event loop              *)
(***************************************************************************)
Invocations == {1, 2}

PairIds == {"1", "2", "3", "4"}

\* productService and commentAnalysisService as both invocations find them:
\* two reviewed products, one without reviews, one id that is not a product
PairStore ==
    [ id \in PairIds |->
        CASE id = "1" -> <<Found(ProductApple), Found(AnalysisApple)>>
          [] id = "2" -> <<Found(ProductXiaomi), Found(AnalysisXiaomi)>>
          [] id = "3" -> <<Found(ProductPlain), Found(AnalysisNoReviews)>>
          [] OTHER -> <<Null, Found(AnalysisXiaomi)>> ]

PairStrategies == {"cost-effective", "price-priority"}

\* the arguments of one call: productIds of at most maxLen different ids, and
\* a strategy
PairRequests(maxLen) ==
    [ productIds : UNION { { l \in [1..n -> PairIds] :
                               \A j, k \in 1..n : l[j] = l[k] => j = k } :
                           n \in 0..maxLen },
      strategy : PairStrategies ]

\* one array for every invocation
SharedArray(i) == 1

\* const recommendations = []: the array is a local of invocation i
OwnArray(i) == i

\* a sort that may order the same array differently each time it is called
SortOutcomesAnyTime(recs, memo) == SortOutcomes(recs)

\* recommendations.sort(...) within one run of the program: whatever order the
\* engine gives an array, it gives the same array the same order again
SortOutcomesOfBuild(recs, memo) ==
    IF \E m \in memo : m[1] = recs
    THEN { m[2] : m \in { x \in memo : x[1] = recs } }
    ELSE SortOutcomes(recs)

PairInit ==
    /\ prodOf = [id \in PairIds |-> PairStore[id][1]]
    /\ anOf = [id \in PairIds |-> PairStore[id][2]]
    /\ pc = "off" /\ req = << >> /\ idx = 0 /\ product = Null
    /\ recommendations = << >> /\ res = NoResponse /\ calls = << >>
    \* the second call repeats the first, or is another, shorter request
    /\ \E first \in PairRequests(MaxPair) :
       \E second \in PairRequests(MaxPair - 2) \cup {first} :
          gIn = <<first, second>>
    /\ gpc = [i \in Invocations |-> "idle"]
    /\ gIdx = [i \in Invocations |-> 0]
    /\ gProduct = [i \in Invocations |-> Null]
    /\ gRecs = [i \in Invocations |-> << >>]
    /\ gOut = [i \in Invocations |-> << >>]
    /\ sortMemo = {}

\* the end of generateRecommendations: sort, rankings, return
ReturnSorted(i, pushed) ==
    \E sorted \in SortOutcomesOfBuild(pushed, sortMemo) :
       /\ gRecs' = [gRecs EXCEPT ![OwnArray(i)] = AssignRankings(sorted)]
       /\ gOut' = [gOut EXCEPT ![i] = AssignRankings(sorted)]
       /\ sortMemo' = sortMemo \cup {<<pushed, sorted>>}
       /\ gpc' = [gpc EXCEPT ![i] = "returned"]

\* generateRecommendations(productIds, strategy) up to its first await
CallGenerate(i) ==
    /\ gpc[i] = "idle"
    /\ IF Len(gIn[i].productIds) = 0
       THEN /\ ReturnSorted(i, << >>)
            /\ gIdx' = gIdx
       ELSE /\ gRecs' = [gRecs EXCEPT ![OwnArray(i)] = << >>]
            /\ gIdx' = [gIdx EXCEPT ![i] = 1]
            /\ gpc' = [gpc EXCEPT ![i] = "getProduct"]
            /\ UNCHANGED <<gOut, sortMemo>>
    /\ UNCHANGED <<gIn, gProduct>>
    /\ UNCHANGED <<rankerVars, filterVars, scorerVars, justVars, storeVars, searchVars, routeVars, moreVars>>

\* const product = await getProductById(productId)
GenerateAwaitProduct(i) ==
    /\ gpc[i] = "getProduct"
    /\ LET answer == getProductById(gIn[i].productIds[gIdx[i]])
       IN IF answer.tag = "throw"
          THEN /\ gpc' = [gpc EXCEPT ![i] = "rejected"]
               /\ gProduct' = gProduct
          ELSE /\ gpc' = [gpc EXCEPT ![i] = "getAnalysis"]
               /\ gProduct' = [gProduct EXCEPT ![i] = answer]
    /\ UNCHANGED <<gIn, gIdx, gRecs, gOut, sortMemo>>
    /\ UNCHANGED <<rankerVars, filterVars, scorerVars, justVars, storeVars, searchVars, routeVars, moreVars>>

\* const commentAnalysis = await getCommentAnalysis(productId), the rest of the
\* loop body and, after the last id, the sort, the rankings and the return
GenerateAwaitAnalysis(i) ==
    /\ gpc[i] = "getAnalysis"
    /\ LET productId == gIn[i].productIds[gIdx[i]]
           answer == getCommentAnalysis(productId)
           mine == gRecs[OwnArray(i)]
           pushed == IF gProduct[i].tag = "null" \/ answer.tag = "null"
                     THEN mine
                     ELSE Append(mine, Recommendation(productId, gProduct[i].val,
                                                      answer.val, gIn[i].strategy))
       IN IF answer.tag = "throw"
          THEN /\ gpc' = [gpc EXCEPT ![i] = "rejected"]
               /\ UNCHANGED <<gIdx, gRecs, gOut, sortMemo>>
          ELSE IF gIdx[i] < Len(gIn[i].productIds)
          THEN /\ gRecs' = [gRecs EXCEPT ![OwnArray(i)] = pushed]
               /\ gIdx' = [gIdx EXCEPT ![i] = gIdx[i] + 1]
               /\ gpc' = [gpc EXCEPT ![i] = "getProduct"]
               /\ UNCHANGED <<gOut, sortMemo>>
          ELSE /\ ReturnSorted(i, pushed)
               /\ gIdx' = gIdx
    /\ UNCHANGED <<gIn, gProduct>>
    /\ UNCHANGED <<rankerVars, filterVars, scorerVars, justVars, storeVars, searchVars, routeVars, moreVars>>

\* the event loop runs one continuation of either invocation at a time
CallGenerateAny == \E i \in Invocations : CallGenerate(i)
GenerateAwaitProductAny == \E i \in Invocations : GenerateAwaitProduct(i)
GenerateAwaitAnalysisAny == \E i \in Invocations : GenerateAwaitAnalysis(i)

(***************************************************************************)
(* Candidate filter (geminiProductSearch.js)                               *)
(***************************************************************************)
\* JavaScript truthiness of a number-or-undefined-or-string value
Truthy(x) ==
    CASE x.tag = "undef" -> FALSE
      [] x.tag = "nan" -> FALSE
      [] x.tag = "emptystr" -> FALSE
      [] x.tag = "num" -> x.v # 0
      [] OTHER -> TRUE

\* a || b on strings, "" being the missing or empty (falsy) one
OrStr(a, b) == IF a # "" THEN a ELSE b

\* x || 0 on a number-or-undefined value
OrZero(x) == IF Truthy(x) THEN x ELSE Num(0)

\* the callback of products.filter(...): whether the candidate is kept
KeepsCandidate(c, strategy) ==
    /\ ~(c.name = "" \/ ~Truthy(c.price) \/ c.brand = "" \/ c.category = "")
    /\ ~(c.price.tag # "num" \/ c.price.v < 0)
    /\ ~(Truthy(strategy.maxPrice) /\ c.price.v > strategy.maxPrice.v)
    /\ ~(Truthy(strategy.minPrice) /\ c.price.v < strategy.minPrice.v)
    /\ ~(Truthy(c.rating) /\ (c.rating.tag # "num" \/ c.rating.v < 0 \/ c.rating.v > 50))
    /\ ~(Truthy(strategy.minRating) /\ OrZero(c.rating).v < strategy.minRating.v)
    /\ ~(strategy.preferredBrands # {} /\ c.brand \notin strategy.preferredBrands)
    /\ ~(strategy.excludedBrands # {} /\ c.brand \in strategy.excludedBrands)

\* the same with a missing rating written as -1 instead of 0
NormalizeCandidateMinusOne(c) ==
    [ name |-> c.name,
      price |-> c.price,
      brand |-> c.brand,
      category |-> c.category,
      imageUrl |-> OrStr(c.imageUrl, OrStr(c.image_url, "https://via.placeholder.com/300x300")),
      productUrl |-> OrStr(c.productUrl, OrStr(c.product_url, "#")),
      rating |-> IF Truthy(c.rating) THEN c.rating ELSE Num(-1),
      reviewCount |-> IF Truthy(c.reviewCount) THEN c.reviewCount ELSE OrZero(c.review_count),
      sourcePlatform |-> OrStr(c.sourcePlatform, OrStr(c.source_platform, "Unknown")),
      description |-> c.description,
      features |-> c.features,
      specifications |-> c.specifications ]

\* the callback of .map(...): the candidate with its optional fields defaulted
NormalizeCandidate(c) ==
    [ name |-> c.name,
      price |-> c.price,
      brand |-> c.brand,
      category |-> c.category,
      imageUrl |-> OrStr(c.imageUrl, OrStr(c.image_url, "https://via.placeholder.com/300x300")),
      productUrl |-> OrStr(c.productUrl, OrStr(c.product_url, "#")),
      rating |-> OrZero(c.rating),
      reviewCount |-> IF Truthy(c.reviewCount) THEN c.reviewCount ELSE OrZero(c.review_count),
      sourcePlatform |-> OrStr(c.sourcePlatform, OrStr(c.source_platform, "Unknown")),
      description |-> c.description,
      features |-> c.features,
      specifications |-> c.specifications ]

RECURSIVE FilterMap(_, _, _)
FilterMap(products, strategy, n) ==
    IF n = 0 THEN << >>
    ELSE LET before == FilterMap(products, strategy, n - 1)
         IN IF KeepsCandidate(products[n], strategy)
            THEN Append(before, NormalizeCandidate(products[n]))
            ELSE before

\* products.filter(...).map(...); the caller always passes an array
validateAndFilterProducts(products, strategy) ==
    FilterMap(products, strategy, Len(products))

\* a candidate as the candidate source delivers it ("" and Undefined: field missing)
Candidate(name, price, brand, category, rating) ==
    [ name |-> name, price |-> price, brand |-> brand, category |-> category,
      rating |-> rating,
      imageUrl |-> "", image_url |-> "", productUrl |-> "", product_url |-> "",
      reviewCount |-> Undefined, review_count |-> Undefined,
      sourcePlatform |-> "", source_platform |-> "",
      description |-> "", features |-> << >>, specifications |-> << >> ]

CandidateSamples ==
    { Candidate("Phone", Num(500), "Apple", "Mobile", Num(45)),
      Candidate("Case", Num(10), "Acme", "Accessories", Undefined),
      Candidate("Sticker", Num(0), "Acme", "Accessories", Num(30)),
      Candidate("Cable", Num(100), "Acme", "Accessories", Num(0)),
      Candidate("", Num(20), "Acme", "Audio", Num(40)),
      Candidate("Radio", Num(-5), "Acme", "Audio", Num(40)),
      Candidate("Tablet", Str(1), "Apple", "Computers", Num(40)),
      Candidate("Watch", Num(300), "Apple", "Mobile", Num(60)),
      \* optional fields under their snake_case names, no rating
      [ Candidate("Lamp", Num(40), "Acme", "Home", Undefined)
          EXCEPT !.image_url = "https://example.com/lamp.jpg",
                 !.review_count = Num(12), !.source_platform = "Gemini" ] }

CandidateLists == UNION { [1..n -> CandidateSamples] : n \in 0..MaxCand }

\* strategies the search routes let through: each constraint unset, or a
\* non-negative number (minRating in tenths, at most 50)
SearchStrategies ==
    [ type : {"cost-effective"},
      maxPrice : {Undefined, Num(0), Num(100)},
      minPrice : {Undefined, Num(0), Num(100)},
      minRating : {Undefined, Num(0), Num(40)},
      preferredBrands : {{}, {"Apple"}},
      excludedBrands : {{}, {"Apple"}} ]

FilterInit ==
    /\ fIn \in CandidateLists
    /\ fStrategy \in SearchStrategies
    /\ fOut = << >>
    /\ fpc = "idle"

\* one call of validateAndFilterProducts
RunFilter ==
    /\ fpc = "idle"
    /\ fOut' = validateAndFilterProducts(fIn, fStrategy)
    /\ fpc' = "done"
    /\ UNCHANGED <<fIn, fStrategy>>
    /\ UNCHANGED <<rankerVars, scorerVars, lateVars, moreVars>>

(***************************************************************************)
(* Strategy scorer, called on its own                                      *)
(***************************************************************************)
ScoreProducts == [ price : {0, 699, 1500, 2000, 2500}, brand : {"Apple", "Acme"} ]

Issues(n) == [ k \in 1..n |-> "issue" ]

ScoreAnalyses ==
    [ totalComments : {0, 10, 1000},
      \* ratings whose scores are no .xx5 ties, where a double sum can round
      \* the other way than the exact one
      averageRating : {0, 32, 40, 45, 50},
      sentimentDistribution : [ positive : {0, 10, 25}, negative : {0}, neutral : {0} ],
      topKeywords : { << >>,
                      << Keyword("premium", 892), Keyword("design", 40) >>,
                      << Keyword("durable", 60), Keyword("great value", 100),
                         Keyword("Premium Quality", 30) >> },
      qualityIndicators : { << >>, << Indicator("excellent build quality", 445) >>,
                            << Indicator("solid", 600), Indicator("fast", 5) >> },
      commonIssues : { Issues(0), Issues(3), Issues(12) },
      positiveAspects : { << >> } ]

ScorerInit ==
    /\ sIn \in [ product : ScoreProducts, analysis : ScoreAnalyses,
                 strategy : Strategies \cup {"luxury"} ]
    /\ sOut = Num(0)
    /\ spc = "idle"

\* one call of calculateStrategyScore
RunScorer ==
    /\ spc = "idle"
    /\ sOut' = calculateStrategyScore(sIn.product, sIn.analysis, sIn.strategy)
    /\ spc' = "done"
    /\ UNCHANGED sIn
    /\ UNCHANGED <<rankerVars, filterVars, lateVars, moreVars>>

(***************************************************************************)
(* pros, cons and confidence of a recommendation, computed on their own    *)
(***************************************************************************)
AspectNames == <<"build quality", "camera system", "battery life", "display",
                 "performance", "price">>
IssueNames == <<"expensive", "heavy", "learning curve", "bloatware", "availability">>

\* the fields of a commentAnalysis that generatePros, generateCons and
\* calculateConfidence read
JustifyAnalyses ==
    [ totalComments : {0, 1, 567, 999, 1000, 1001, 2547},
      averageRating : {0, 10, 25, 34, 44, 48, 50},
      positiveAspects : { SubSeq(AspectNames, 1, n) : n \in 0..MaxAspects },
      commonIssues : { SubSeq(IssueNames, 1, n) : n \in 0..MaxIssues } ]

JustifyInit ==
    /\ jIn \in JustifyAnalyses
    /\ jOut = << >>
    /\ jpc = "idle"

\* the three calls generateRecommendations makes on a commentAnalysis
RunJustify ==
    /\ jpc = "idle"
    /\ jOut' = [ pros |-> generatePros(jIn),
                 cons |-> generateCons(jIn),
                 confidence |-> calculateConfidence(jIn) ]
    /\ jpc' = "done"
    /\ UNCHANGED jIn
    /\ UNCHANGED <<rankerVars, filterVars, scorerVars, pairVars, storeVars, searchVars, routeVars, moreVars>>

(***************************************************************************)
(* storeGeminiProducts (geminiProductSearch.js)                            *)
(***************************************************************************)
\* what `await createProduct(productData)` can do: resolve to {data, error: null},
\* resolve to {data: null, error}, or reject
CreateOutcomes == {"stored", "error", "throw"}

StoreNames == {"iPhone 15 Pro Max", "Xiaomi 14 Ultra"}

\* the products a call is given; only the name is read back
StoreProductLists == UNION { [1..n -> [name : StoreNames]] : n \in 0..MaxStore }

\* `Failed to store ${product.name}: ...` / `Unexpected error storing ${product.name}: ...`
StoreMessage(kind, name) == [kind |-> kind, name |-> name]

\* the body of the loop with a catch block that records nothing
StoreOneLosingThrow(results, p, outcome) ==
    CASE outcome = "stored" -> [results EXCEPT !.stored = @ + 1]
      [] outcome = "error" ->
           [results EXCEPT !.errors = Append(@, StoreMessage("Failed to store", p.name))]
      [] OTHER -> results

\* the body of the loop for one product, given what createProduct did
StoreOne(results, p, outcome) ==
    CASE outcome = "stored" -> [results EXCEPT !.stored = @ + 1]
      [] outcome = "error" ->
           [results EXCEPT !.errors = Append(@, StoreMessage("Failed to store", p.name))]
      [] OTHER ->
           [results EXCEPT !.errors =
               Append(@, StoreMessage("Unexpected error storing", p.name))]

StoreInit ==
    /\ stIn \in StoreProductLists
    /\ stIdx = 0
    /\ stResults = [stored |-> 0, errors |-> << >>]
    /\ stCalls = << >>
    /\ stDb = << >>
    /\ stpc = "idle"

\* storeGeminiProducts(products) up to the first await, or to the return when
\* the list is empty
CallStoreGeminiProducts ==
    /\ stpc = "idle"
    /\ stResults' = [stored |-> 0, errors |-> << >>]
    /\ IF Len(stIn) = 0
       THEN stpc' = "returned" /\ stIdx' = stIdx
       ELSE stpc' = "storing" /\ stIdx' = 1
    /\ UNCHANGED <<stIn, stCalls, stDb>>
    /\ UNCHANGED <<rankerVars, filterVars, scorerVars, pairVars, justVars, searchVars, routeVars, moreVars>>

\* await createProduct(productData), the rest of the try block or the catch
\* block, the next iteration or the return
AwaitCreateProduct ==
    /\ stpc = "storing"
    /\ \E outcome \in CreateOutcomes :
          /\ stCalls' = Append(stCalls, [name |-> stIn[stIdx].name, outcome |-> outcome])
          /\ stDb' = IF outcome = "stored" THEN Append(stDb, stIn[stIdx].name) ELSE stDb
          /\ stResults' = StoreOne(stResults, stIn[stIdx], outcome)
    /\ IF stIdx < Len(stIn)
       THEN stIdx' = stIdx + 1 /\ stpc' = stpc
       ELSE stIdx' = stIdx /\ stpc' = "returned"
    /\ UNCHANGED stIn
    /\ UNCHANGED <<rankerVars, filterVars, scorerVars, pairVars, justVars, searchVars, routeVars, moreVars>>

(***************************************************************************)
(* searchProductsWithGemini (geminiProductSearch.js, and the TypeScript    *)
(* source of the same service that still calls the Gemini model)           *)
(***************************************************************************)
\* a customerInput argument: undefined, a string, or a non-zero number
Query(kind, text) == [kind |-> kind, text |-> text]

LongQuery == "aaaaaaaaaaaaaaaaaaaaaaaaaaaaaaaaaaaaaaaaaaaaaaaaaaaaaaaaaaaaaaaaaaaaaaaa"

CustomerInputs ==
    { Query("undefined", ""), Query("number", ""), Query("string", ""),
      Query("string", "   "), Query("string", "phone"), Query("string", LongQuery) }

\* text.trim() on the texts above
Trim(text) == IF text = "   " THEN "" ELSE text

\* the fields of a strategy object that has none
NoFields ==
    [ type |-> "", maxPrice |-> Undefined, minPrice |-> Undefined,
      minRating |-> Undefined, preferredBrands |-> {}, excludedBrands |-> {} ]

\* a strategy argument: undefined, a string such as 'fancy', or an object
StrategyArg(kind, val) == [kind |-> kind, val |-> val]

\* strategy?.type, "" when there is none (a string has no property `type`)
TypeOf(strategy) == IF strategy.kind = "object" THEN strategy.val.type ELSE ""

\* !strategy || !strategy.type
StrategyMissing(strategy) == strategy.kind = "undefined" \/ TypeOf(strategy) = ""

StrategyArgs ==
    { StrategyArg("undefined", NoFields), StrategyArg("string", NoFields) }
    \cup { StrategyArg("object", [NoFields EXCEPT !.type = t, !.maxPrice = m]) :
             t \in Strategies \cup {"", "invalid-strategy"},
             m \in {Undefined, Num(1000)} }

\* three of the ten entries of STATIC_SMARTPHONES
STATIC_SMARTPHONES ==
    << [ Candidate("iPhone 15 Pro Max", Num(1199), "Apple", "Smartphones", Num(48))
           EXCEPT !.imageUrl = "/phones/iphone-15-pro-max.svg", !.productUrl = "#",
                  !.reviewCount = Num(1200), !.sourcePlatform = "Static" ],
       [ Candidate("Xiaomi 14 Ultra", Num(699), "Xiaomi", "Smartphones", Num(44))
           EXCEPT !.imageUrl = "/phones/xiaomi-14-ultra.svg", !.productUrl = "#",
                  !.reviewCount = Num(530), !.sourcePlatform = "Static" ],
       [ Candidate("Realme GT 5", Num(549), "Realme", "Smartphones", Num(41))
           EXCEPT !.imageUrl = "https://via.placeholder.com/300x200?text=Realme+GT+5",
                  !.productUrl = "#", !.reviewCount = Num(380),
                  !.sourcePlatform = "Static" ] >>

MockBrands == <<"Acme", "Contoso", "Globex", "Umbrella", "Initech">>
MockCategories == <<"Electronics", "Computers", "Audio", "Mobile", "Accessories">>

\* generateMockProducts(query, strategy): six placeholders, i = 0..5
generateMockProducts(query, strategy) ==
    LET type == TypeOf(strategy)
        basePrice == IF type = "price-priority" THEN 29
                     ELSE IF type = "cost-effective" THEN 99 ELSE 299
        step == IF type = "price-priority" THEN 5
                ELSE IF type = "cost-effective" THEN 20 ELSE 50
    IN [ k \in 1..6 |->
           [ name |-> [query |-> query, model |-> k],
             price |-> Num(basePrice + (k - 1) * step),
             brand |-> MockBrands[((k - 1) % 5) + 1],
             category |-> MockCategories[((k - 1) % 5) + 1],
             imageUrl |-> "https://via.placeholder.com/300x200",
             productUrl |-> "#",
             rating |-> IF type = "fancy" THEN Num(45)
                        ELSE IF type = "cost-effective" THEN Num(40) ELSE Num(38),
             reviewCount |-> Num(50 + (k - 1) * 10),
             sourcePlatform |-> "Gemini (mock)",
             description |-> [query |-> query, type |-> type],
             features |-> <<"Feature A", "Feature B", "Feature C">>,
             specifications |-> [weight |-> 5 + (k - 1)] ] ]

\* what the Gemini model can answer in the TypeScript implementation: the call
\* rejects, or the text is a JSON array, an array wrapped in prose, prose
\* without an array, or JSON that is not an array
GeminiMessages ==
    { "[404 Not Found] models/gemini-pro is not found for API version v1beta",
      "fetch failed" }

GeminiArrays ==
    { << >>,
      << Candidate("Phone", Num(500), "Apple", "Mobile", Num(45)) >>,
      << Candidate("Phone", Num(500), "Apple", "Mobile", Num(45)),
         Candidate("Radio", Num(-5), "Acme", "Audio", Num(40)) >>,
      << Candidate("Case", Num(10), "Acme", "Accessories", Undefined),
         Candidate("Watch", Num(1300), "Apple", "Mobile", Num(40)) >> }

GeminiReplies ==
    { [kind |-> "error", message |-> m, products |-> << >>] : m \in GeminiMessages }
    \cup { [kind |-> k, message |-> "", products |-> << >>] : k \in {"prose", "object"} }
    \cup { [kind |-> k, message |-> "", products |-> l] :
             k \in {"array", "wrapped"}, l \in GeminiArrays }

\* the two throws at the top of the try block, and the TypeError of calling
\* .trim() on a number; "" when none is thrown
InputThrown(customerInput, strategy) ==
    CASE customerInput.kind = "undefined" -> "Customer input is required"
      [] customerInput.kind = "number" -> "customerInput.trim is not a function"
      [] Trim(customerInput.text) = "" -> "Customer input is required"
      [] StrategyMissing(strategy) -> "Search strategy is required"
      [] OTHER -> ""

\* the regular expressions of the catch block, on the messages above
isModelError(msg) ==
    msg = "[404 Not Found] models/gemini-pro is not found for API version v1beta"

\* a failed search answered with an unlabelled placeholder
SearchFailureUntagged(msg) ==
    [ outcome |-> "returned", success |-> TRUE, error |-> "",
      products |-> << Candidate("Placeholder", Num(299), "Acme", "Electronics", Num(45)) >> ]

\* { products: [], success: false, error: error.message }
SearchFailure(msg) ==
    [outcome |-> "returned", products |-> << >>, success |-> FALSE, error |-> msg]

\* { products, success: true }
SearchSuccess(products) ==
    [outcome |-> "returned", products |-> products, success |-> TRUE, error |-> ""]

\* the catch block of geminiProductSearch.js
CatchSearchError(msg, customerInput, strategy) ==
    IF isModelError(msg)
    THEN SearchSuccess(generateMockProducts(customerInput.text, strategy))
    ELSE SearchFailure(msg)

\* searchProductsWithGemini of geminiProductSearch.js
searchProductsWithGemini(customerInput, strategy) ==
    LET thrown == InputThrown(customerInput, strategy)
    IN IF thrown = ""
       THEN SearchSuccess(validateAndFilterProducts(STATIC_SMARTPHONES, strategy.val))
       ELSE CatchSearchError(thrown, customerInput, strategy)

\* what the try block of the TypeScript implementation throws
GeminiThrown(customerInput, strategy, reply) ==
    LET thrown == InputThrown(customerInput, strategy)
    IN IF thrown # "" THEN thrown
       ELSE CASE reply.kind = "error" -> reply.message
              [] reply.kind = "prose" -> "Invalid JSON response from Gemini"
              [] OTHER -> ""

\* searchProductsWithGemini of the TypeScript implementation
searchProductsWithGeminiTs(customerInput, strategy, reply) ==
    LET thrown == GeminiThrown(customerInput, strategy, reply)
    IN IF thrown # "" THEN SearchFailure(thrown)
       ELSE IF reply.kind = "object" THEN SearchSuccess(<< >>)
       ELSE SearchSuccess(validateAndFilterProducts(reply.products, strategy.val))

SearchInit ==
    /\ srIn \in [customerInput : CustomerInputs, strategy : StrategyArgs,
                 reply : GeminiReplies]
    /\ srThrown = ""
    /\ srOut = << >>
    /\ srpc = "idle"

\* one call of searchProductsWithGemini of geminiProductSearch.js
RunSearchStatic ==
    /\ srpc = "idle"
    /\ srThrown' = InputThrown(srIn.customerInput, srIn.strategy)
    /\ srOut' = searchProductsWithGemini(srIn.customerInput, srIn.strategy)
    /\ srpc' = "static"
    /\ UNCHANGED srIn
    /\ UNCHANGED <<rankerVars, filterVars, scorerVars, pairVars, justVars, storeVars, routeVars, moreVars>>

\* one call of searchProductsWithGemini of the TypeScript implementation
RunSearchGemini ==
    /\ srpc = "idle"
    /\ srThrown' = GeminiThrown(srIn.customerInput, srIn.strategy, srIn.reply)
    /\ srOut' = searchProductsWithGeminiTs(srIn.customerInput, srIn.strategy, srIn.reply)
    /\ srpc' = "gemini"
    /\ UNCHANGED srIn
    /\ UNCHANGED <<rankerVars, filterVars, scorerVars, pairVars, justVars, storeVars, routeVars, moreVars>>

(***************************************************************************)
(* POST /api/gemini/search and POST /api/gemini/search-only                *)
(***************************************************************************)
\* the strategy of a request body: absent, or an object whose type and
\* constraints are any of these (brand lists, when present, are arrays)
RouteStrategies ==
    { StrategyArg("undefined", NoFields) }
    \cup { StrategyArg("object",
                       [NoFields EXCEPT !.type = t, !.maxPrice = mx, !.minPrice = mn,
                                        !.minRating = r]) :
             t \in Strategies \cup {"", "luxury"},
             mx \in {Undefined, Num(-1), Num(1000)},
             mn \in {Undefined, Num(-1)},
             r \in {Undefined, Num(-1), Num(45), Num(51)} }

RouteRequests ==
    [ customerInput : { Query("undefined", ""), Query("string", ""),
                        Query("string", "phone") },
      strategy : RouteStrategies,
      storeResults : BOOLEAN ]

\* !customerInput || typeof customerInput !== 'string' || customerInput.trim().length === 0
BadCustomerInput(q) == q.kind # "string" \/ Trim(q.text) = ""

\* x !== undefined && (typeof x !== 'number' || x < 0)
BadPrice(x) == x.tag # "undef" /\ (x.tag # "num" \/ x.v < 0)

\* x !== undefined && (typeof x !== 'number' || x < 0 || x > 5), in tenths
BadRating(x) == x.tag # "undef" /\ (x.tag # "num" \/ x.v < 0 \/ x.v > 50)

\* the 400 answer of POST /search-only, "" when the request passes
SearchOnlyValidationError(body) ==
    CASE BadCustomerInput(body.customerInput) ->
           "Customer input is required and must be a non-empty string"
      [] StrategyMissing(body.strategy) -> "Strategy object with type is required"
      [] OTHER -> ""

\* the 400 answer of POST /search, "" when the request passes
SearchValidationError(body) ==
    CASE BadCustomerInput(body.customerInput) ->
           "Customer input is required and must be a non-empty string"
      [] StrategyMissing(body.strategy) -> "Strategy object with type is required"
      [] TypeOf(body.strategy) \notin Strategies -> "Invalid strategy type"
      [] BadPrice(body.strategy.val.maxPrice) -> "Max price must be a non-negative number"
      [] BadPrice(body.strategy.val.minPrice) -> "Min price must be a non-negative number"
      [] BadRating(body.strategy.val.minRating) ->
           "Min rating must be a number between 0 and 5"
      [] OTHER -> ""

RouteError(status, error) ==
    [status |-> status, success |-> FALSE, error |-> error, products |-> << >>,
     stored |-> 0]

RouteSuccess(products, stored) ==
    [status |-> 200, success |-> TRUE, error |-> "", products |-> products,
     stored |-> stored]

\* storeGeminiProducts as one step: the results after the first n products,
\* createProduct having done outcomes[k] for the k-th
RECURSIVE StoreAll(_, _, _)
StoreAll(products, outcomes, n) ==
    IF n = 0 THEN [stored |-> 0, errors |-> << >>]
    ELSE StoreOne(StoreAll(products, outcomes, n - 1), products[n], outcomes[n])

\* the rows inserted by those calls
RECURSIVE Inserted(_, _, _)
Inserted(products, outcomes, n) ==
    IF n = 0 THEN << >>
    ELSE IF outcomes[n] = "stored"
    THEN Append(Inserted(products, outcomes, n - 1), products[n].name)
    ELSE Inserted(products, outcomes, n - 1)

RoutesInit ==
    /\ rtReq \in RouteRequests
    /\ rtRes = RouteError(0, "")
    /\ rtCalls = << >>
    /\ rtDb = << >>
    /\ rtpc = "idle"

\* router.post('/search'): validation, searchAndStoreProducts (the search, and
\* the storage when asked for and something was found), the answer
PostSearch ==
    /\ rtpc = "idle"
    /\ rtpc' = "search"
    /\ LET invalid == SearchValidationError(rtReq)
           searchResult == searchProductsWithGemini(rtReq.customerInput, rtReq.strategy)
           found == searchResult.products
       IN IF invalid # ""
          THEN /\ rtRes' = RouteError(400, invalid)
               /\ UNCHANGED <<rtCalls, rtDb>>
          ELSE IF ~searchResult.success
          THEN /\ rtRes' = RouteError(500, searchResult.error)
               /\ rtCalls' = <<"searchAndStoreProducts", "searchProductsWithGemini">>
               /\ rtDb' = rtDb
          ELSE IF rtReq.storeResults /\ Len(found) > 0
          THEN \E outcomes \in [1..Len(found) -> CreateOutcomes] :
                  /\ rtRes' = RouteSuccess(found,
                                           StoreAll(found, outcomes, Len(found)).stored)
                  /\ rtCalls' = <<"searchAndStoreProducts", "searchProductsWithGemini",
                                  "storeGeminiProducts">>
                  /\ rtDb' = Inserted(found, outcomes, Len(found))
          ELSE /\ rtRes' = RouteSuccess(found, 0)
               /\ rtCalls' = <<"searchAndStoreProducts", "searchProductsWithGemini">>
               /\ rtDb' = rtDb
    /\ UNCHANGED rtReq
    /\ UNCHANGED <<rankerVars, filterVars, scorerVars, pairVars, justVars, storeVars,
                   searchVars, moreVars>>

\* router.post('/search-only'): validation, searchProductsWithGemini, the answer
PostSearchOnly ==
    /\ rtpc = "idle"
    /\ rtpc' = "search-only"
    /\ LET invalid == SearchOnlyValidationError(rtReq)
           searchResult == searchProductsWithGemini(rtReq.customerInput, rtReq.strategy)
       IN IF invalid # ""
          THEN /\ rtRes' = RouteError(400, invalid)
               /\ rtCalls' = rtCalls
          ELSE /\ rtCalls' = <<"searchProductsWithGemini">>
               /\ rtRes' = IF searchResult.success
                           THEN RouteSuccess(searchResult.products, 0)
                           ELSE RouteError(500, searchResult.error)
    /\ UNCHANGED <<rtReq, rtDb>>
    /\ UNCHANGED <<rankerVars, filterVars, scorerVars, pairVars, justVars, storeVars,
                   searchVars, moreVars>>

(***************************************************************************)
(* transformGeminiToSupabase (geminiDataTransformer.js)                    *)
(* Here a price is in whole currency units, a rating and a review count in *)
(* tenths (a review count of 100.5 is Num(1005)).                          *)
(***************************************************************************)
\* a JavaScript string value of a text field
Text(s) == [tag |-> "text", s |-> s]
\* a string that holds the decimal text of the number n, such as '4.5'
NumStr(n) == [tag |-> "numstr", v |-> n]
\* the empty string in a number field
EmptyStr == [tag |-> "emptystr", v |-> 0]

\* the function threw (a TypeError: a method called on undefined)
Threw == [tag |-> "threw"]

PlaceholderUrl == "https://via.placeholder.com/300x300"

\* validateAndFixUrl, with `new URL(fixedUrl)` tabulated for the urls in use
validateAndFixUrl(url) ==
    IF url.tag = "undef" \/ url.s = "" THEN PlaceholderUrl
    ELSE LET trimmed == Trim(url.s)
             fixedUrl == CASE trimmed = "example.com/image.jpg" -> "https://example.com/image.jpg"
                           [] OTHER -> trimmed
         IN IF fixedUrl \in {"https://", ""} THEN PlaceholderUrl ELSE fixedUrl

\* parseFloat(x.toString()) for a defined x: a number prints and parses back
\* to itself, 'NaN' and a text that does not start with a number give NaN
ParseFloat(x) ==
    CASE x.tag = "num" -> x
      [] x.tag = "numstr" -> Num(x.v)
      [] x.tag = "inf" -> PosInf
      [] OTHER -> NaN

\* n tenths truncated towards zero to a whole number, in tenths
Truncate(n) == IF n >= 0 THEN (n \div 10) * 10 ELSE -(((-n) \div 10) * 10)

\* parseInt(x.toString()) for a defined x: the leading integer digits;
\* 'Infinity', 'NaN' and other texts give NaN
ParseInt(x) ==
    CASE x.tag = "num" -> Num(Truncate(x.v))
      [] x.tag = "numstr" -> Num(Truncate(x.v))
      [] OTHER -> NaN

\* x?.toString() || '0': '0' for undefined, null and the empty string
IsBlankNumber(x) == x.tag \in {"undef", "emptystr"}

\* Math.max(0, x): NaN stays NaN
MaxZero(x) ==
    CASE x.tag = "num" -> Num(Max(0, x.v))
      [] OTHER -> x

\* Math.min(top, x): NaN stays NaN, Infinity gives top
MinOf(top, x) ==
    CASE x.tag = "num" -> Num(Min(top, x.v))
      [] x.tag = "inf" -> Num(top)
      [] OTHER -> x

\* name.trim(), price.toString(), brand.trim(), category.trim() and
\* sourcePlatform.trim() throw on undefined; the optional chaining of rating
\* and reviewCount does not
transformGeminiToSupabase(g) ==
    IF \/ \E f \in {g.name, g.brand, g.category, g.sourcePlatform} : f.tag = "undef"
       \/ g.price.tag = "undef"
    THEN Threw
    ELSE [ tag |-> "ok",
           name |-> Trim(g.name.s),
           price |-> MaxZero(OrZero(ParseFloat(g.price))),
           brand |-> Trim(g.brand.s),
           category |-> Trim(g.category.s),
           imageUrl |-> validateAndFixUrl(g.imageUrl),
           productUrl |-> validateAndFixUrl(g.productUrl),
           rating |-> IF IsBlankNumber(g.rating) THEN Num(0)
                      ELSE MaxZero(MinOf(50, ParseFloat(g.rating))),
           reviewCount |-> IF IsBlankNumber(g.reviewCount) THEN Num(0)
                           ELSE MaxZero(ParseInt(g.reviewCount)),
           sourcePlatform |-> OrStr(Trim(g.sourcePlatform.s), "Gemini") ]

\* a Gemini product as the candidate source delivers it
GeminiProduct(name, price, rating, reviewCount, imageUrl) ==
    [ name |-> name, price |-> price, brand |-> Text("TestBrand"),
      category |-> Text("Electronics"), imageUrl |-> imageUrl,
      productUrl |-> Text("https://example.com/product"),
      rating |-> rating, reviewCount |-> reviewCount,
      sourcePlatform |-> Text("Gemini") ]

\* price, rating and reviewCount negative, zero, in range, above the range,
\* missing, a numeric text and a text that is no number
GeminiProducts ==
    { GeminiProduct(name, price, rating, reviewCount, imageUrl) :
        name \in {Undefined, Text(""), Text("Test Product")},
        price \in {Undefined, Num(-5), Num(0), Num(100), NumStr(100), Str(1), NaN},
        rating \in {Undefined, Num(-10), Num(45), Num(60), NumStr(45), Str(1), EmptyStr, PosInf},
        reviewCount \in {Undefined, Num(-30), Num(1005), NumStr(1000), Str(1), NaN},
        imageUrl \in {Undefined, Text("example.com/image.jpg")} }

TransformInit ==
    /\ tIn \in GeminiProducts
    /\ tOut = Threw
    /\ tpc = "idle"

\* one call of transformGeminiToSupabase
RunTransform ==
    /\ tpc = "idle"
    /\ tOut' = transformGeminiToSupabase(tIn)
    /\ tpc' = "done"
    /\ UNCHANGED tIn
    /\ UNCHANGED <<rankerVars, filterVars, scorerVars, lateVars, otherThanTransform>>

(***************************************************************************)
(* storeGeminiProductsWithMetadata and batchProcessGeminiProducts          *)
(* (geminiDataTransformer.js)                                              *)
(***************************************************************************)
\* array.slice(start, end): a negative index counts from the end of the array
\* the same with the element at index `end` included
JsSliceInclusive(s, start, end) ==
    LET len == Len(s)
        from == IF start < 0 THEN Max(len + start, 0) ELSE Min(start, len)
        to == IF end < 0 THEN Max(len + end, 0) ELSE Min(end, len)
    IN SubSeq(s, from + 1, Min(to + 1, len))

JsSlice(s, start, end) ==
    LET len == Len(s)
        from == IF start < 0 THEN Max(len + start, 0) ELSE Min(start, len)
        to == IF end < 0 THEN Max(len + end, 0) ELSE Min(end, len)
    IN SubSeq(s, from + 1, to)

\* the validation without the check of the price
ValidationErrorAnyPrice(t) ==
    IF t.name = "" \/ t.brand = "" \/ t.category = ""
    THEN "Missing required fields (name, brand, or category)"
    ELSE ""

\* the error the validation of the transformed record throws, "" when it passes
ValidationError(t) ==
    IF t.name = "" \/ t.brand = "" \/ t.category = ""
    THEN "Missing required fields (name, brand, or category)"
    ELSE IF ~JsGeq(t.price, Num(1))
    THEN "Invalid price: must be greater than 0"
    ELSE ""

\* an entry of results.errors: `Failed to store ${name}: ${message}` or
\* `Error storing ${name}: ${message}`
MetaMessage(kind, name, message) == [kind |-> kind, name |-> name, message |-> message]

EmptyResults == [stored |-> 0, errors |-> << >>, products |-> << >>]

\* whether the loop body reaches `await createProduct(supabaseData)`
ReachesCreate(g) ==
    LET t == transformGeminiToSupabase(g)
    IN t.tag = "ok" /\ ValidationError(t) = ""

\* the transformed product with its metadata
TransformedProduct(data) == [data |-> data, source |-> "gemini"]

\* one iteration of the loop of storeGeminiProductsWithMetadata on a product
\* that is an object, given what createProduct did if it was called
MetaOne(results, g, outcome) ==
    LET t == transformGeminiToSupabase(g)
    IN IF t.tag = "threw"
       THEN [results EXCEPT !.errors =
                Append(@, MetaMessage("Error storing", g.name, "TypeError"))]
       ELSE IF ValidationError(t) # ""
       THEN [results EXCEPT !.errors =
                Append(@, MetaMessage("Error storing", g.name, ValidationError(t)))]
       ELSE CASE outcome = "stored" ->
                   [results EXCEPT !.products = Append(@, TransformedProduct(t)),
                                   !.stored = @ + 1]
              [] outcome = "error" ->
                   [results EXCEPT !.errors =
                       Append(@, MetaMessage("Failed to store", g.name, "error.message"))]
              [] OTHER ->
                   [results EXCEPT !.errors =
                       Append(@, MetaMessage("Error storing", g.name, "rejected"))]

\* products a call is given: one that is stored, one with price 0, one whose
\* name is blank, one without a name
BatchItems ==
    { GeminiProduct(Text("Test Product"), Num(50), Num(40), Num(500),
                    Text("example.com/image.jpg")),
      GeminiProduct(Text("Test Product"), Num(0), Num(40), Num(500),
                    Text("example.com/image.jpg")),
      GeminiProduct(Text("   "), Num(50), Num(40), Num(500),
                    Text("example.com/image.jpg")),
      GeminiProduct(Undefined, Num(50), Num(40), Num(500),
                    Text("example.com/image.jpg")),
      \* an element that is null: geminiProduct.name throws in the catch block too
      Null }

BatchLists == UNION { [1..n -> BatchItems] : n \in 0..MaxBatch }

BatchSizes == -1..(MaxBatch + 1)

\* Math.floor(i / batchSize) + 1, NaN for 0 / 0
BatchNumber(i, batchSize) ==
    CASE batchSize = 0 -> NaN
      [] batchSize > 0 -> Num((i \div batchSize) + 1)
      [] OTHER -> Num(((-i) \div (-batchSize)) + 1)

\* `Batch ${n} failed: ${message}`
BatchFailed(i, batchSize) ==
    MetaMessage("Batch failed", BatchNumber(i, batchSize), "TypeError")

\* a call of storeGeminiProductsWithMetadata as seen by its caller: the batch
\* given, the createProduct calls it made, and its result or its rejection
StoreCall(batch, created, result) ==
    [batch |-> batch, created |-> created, result |-> result]

\* the record of the calls, kept no longer than the input has products plus one
LogCall(log, call) ==
    IF Len(log) <= Len(bIn.products) THEN Append(log, call) ELSE log

\* allResults after a batch: the three statements after the await
Accumulate(all, batchResult) ==
    [ stored |-> all.stored + batchResult.stored,
      errors |-> all.errors \o batchResult.errors,
      products |-> all.products \o batchResult.products ]

BatchInit ==
    /\ bIn \in [products : BatchLists, batchSize : BatchSizes]
    /\ bI = 0
    /\ bAll = EmptyResults
    /\ bpc = "idle"
    /\ mBatch = << >>
    /\ mIdx = 0
    /\ mResults = EmptyResults
    /\ mCreated = << >>
    /\ bLog = << >>

\* batchProcessGeminiProducts(geminiProducts, batchSize, ...) up to the loop
CallBatchProcess ==
    /\ bpc = "idle"
    /\ bAll' = EmptyResults
    /\ bI' = 0
    /\ bpc' = "loop"
    /\ UNCHANGED <<bIn, mBatch, mIdx, mResults, mCreated, bLog>>
    /\ UNCHANGED <<rankerVars, filterVars, scorerVars, lateVars, otherThanBatch>>

\* the loop test, the slice and the call of storeGeminiProductsWithMetadata up
\* to its first iteration; an empty batch is answered at once.  With
\* batchSize 0 an iteration leaves i and allResults as they were: the loop
\* spins on one state.
BatchLoop ==
    /\ bpc = "loop"
    /\ bI >= -MaxBackward
    /\ IF bI < Len(bIn.products)
       THEN LET batch == JsSlice(bIn.products, bI, bI + bIn.batchSize)
            IN IF batch = << >>
               THEN /\ bAll' = Accumulate(bAll, EmptyResults)
                    /\ bLog' = LogCall(bLog, StoreCall(batch, << >>, EmptyResults))
                    /\ bI' = bI + bIn.batchSize
                    /\ UNCHANGED <<bpc, mBatch, mIdx, mResults, mCreated>>
               ELSE /\ mBatch' = batch
                    /\ mIdx' = 1
                    /\ mResults' = EmptyResults
                    /\ mCreated' = << >>
                    /\ bpc' = "store"
                    /\ UNCHANGED <<bAll, bLog, bI>>
       ELSE /\ bpc' = "returned"
            /\ UNCHANGED <<bAll, bLog, bI, mBatch, mIdx, mResults, mCreated>>
    /\ UNCHANGED bIn
    /\ UNCHANGED <<rankerVars, filterVars, scorerVars, lateVars, otherThanBatch>>

\* one iteration of the loop of storeGeminiProductsWithMetadata: transform,
\* validate, await createProduct, record; after the last product the return
\* to batchProcessGeminiProducts, which adds the result up and steps i.  On a
\* null element the catch block throws, the call rejects and the batch fails.
StoreItem ==
    /\ bpc = "store"
    /\ LET g == mBatch[mIdx]
       IN IF g = Null
          THEN /\ bAll' = [bAll EXCEPT !.errors = Append(@, BatchFailed(bI, bIn.batchSize))]
               /\ bLog' = LogCall(bLog, StoreCall(mBatch, mCreated, Threw))
               /\ bI' = bI + bIn.batchSize
               /\ bpc' = "loop"
               /\ UNCHANGED <<mIdx, mResults, mCreated>>
          ELSE \E outcome \in (IF ReachesCreate(g) THEN CreateOutcomes ELSE {"not called"}) :
               LET results == MetaOne(mResults, g, outcome)
                   created == IF ReachesCreate(g)
                              THEN Append(mCreated,
                                          [data |-> transformGeminiToSupabase(g),
                                           outcome |-> outcome])
                              ELSE mCreated
               IN /\ mResults' = results
                  /\ mCreated' = created
                  /\ IF mIdx < Len(mBatch)
                     THEN /\ mIdx' = mIdx + 1
                          /\ UNCHANGED <<bAll, bLog, bI, bpc>>
                     ELSE /\ bAll' = Accumulate(bAll, results)
                          /\ bLog' = LogCall(bLog, StoreCall(mBatch, created, results))
                          /\ bI' = bI + bIn.batchSize
                          /\ bpc' = "loop"
                          /\ mIdx' = mIdx
    /\ UNCHANGED <<bIn, mBatch>>
    /\ UNCHANGED <<rankerVars, filterVars, scorerVars, lateVars, otherThanBatch>>

(***************************************************************************)
(* searchAndStoreProducts with createProduct (supabaseProductService)      *)
(***************************************************************************)
\* the fields storeGeminiProducts copies into productData
ProductData(p) ==
    [ name |-> p.name, price |-> p.price, brand |-> p.brand, category |-> p.category,
      imageUrl |-> p.imageUrl, productUrl |-> p.productUrl, rating |-> p.rating,
      reviewCount |-> p.reviewCount, sourcePlatform |-> p.sourcePlatform ]

\* typeof x === 'number'
IsTypeNumber(x) == x.tag \in {"num", "nan", "inf"}

\* the message of the error the validation of createProduct throws, "" when
\* the data passes
ValidateProductData(d) ==
    IF \/ d.name = "" \/ ~Truthy(d.price) \/ d.brand = "" \/ d.category = ""
       \/ d.imageUrl = "" \/ d.productUrl = "" \/ d.sourcePlatform = ""
    THEN "Missing required fields"
    ELSE IF ~IsTypeNumber(d.price) \/ (d.price.tag = "num" /\ d.price.v < 0)
    THEN "Price must be a non-negative number"
    ELSE IF d.rating.tag # "undef"
            /\ (~IsTypeNumber(d.rating)
                \/ (d.rating.tag = "num" /\ (d.rating.v < 0 \/ d.rating.v > 50))
                \/ d.rating.tag = "inf")
    THEN "Rating must be a number between 0 and 5"
    ELSE IF d.reviewCount.tag # "undef"
            /\ (~IsTypeNumber(d.reviewCount)
                \/ (d.reviewCount.tag = "num" /\ d.reviewCount.v < 0))
    THEN "Review count must be a non-negative number"
    ELSE ""

\* what the insert into the products table answers
InsertOutcomes == {"row", "database error"}

\* createProduct(productData): the error message it resolves with, "" with data
createProduct(d, insert) ==
    IF ValidateProductData(d) # "" THEN ValidateProductData(d)
    ELSE IF insert = "database error" THEN "Database error"
    ELSE ""

\* candidates the model answers with: the review count valid, missing,
\* negative, a text under its snake_case name, and a candidate the filter drops
ChainCandidates ==
    { [ Candidate("Phone", Num(500), "Apple", "Mobile", Num(45))
          EXCEPT !.reviewCount = Num(100) ],
      Candidate("Case", Num(10), "Acme", "Accessories", Undefined),
      [ Candidate("Watch", Num(300), "Apple", "Mobile", Num(40))
          EXCEPT !.reviewCount = Num(-5) ],
      [ Candidate("Lamp", Num(40), "Acme", "Home", Num(30))
          EXCEPT !.review_count = Str(1) ],
      Candidate("Radio", Num(-5), "Acme", "Audio", Num(40)) }

ChainReplies ==
    { [kind |-> "error", message |-> "fetch failed", products |-> << >>] }
    \cup { [kind |-> "array", message |-> "", products |-> l] :
             l \in UNION { [1..n -> ChainCandidates] : n \in 0..MaxChain } }

ChainStrategies ==
    { StrategyArg("object", [NoFields EXCEPT !.type = "cost-effective", !.maxPrice = m]) :
        m \in {Undefined, Num(100)} }

\* what searchAndStoreProducts resolves to
ChainResult(products, results, success) ==
    [ products |-> products, stored |-> results.stored, errors |-> results.errors,
      success |-> success ]

ChainInit ==
    /\ kIn \in [ customerInput : {Query("string", "phone"), Query("string", "")},
                 strategy : ChainStrategies, reply : ChainReplies,
                 storeResults : BOOLEAN ]
    /\ kProducts = << >>
    /\ kIdx = 0
    /\ kResults = [stored |-> 0, errors |-> << >>]
    /\ kAnswers = << >>
    /\ kOut = << >>
    /\ kpc = "idle"

\* searchAndStoreProducts up to the first createProduct, or to its return when
\* the search failed or there is nothing to store
CallSearchAndStore ==
    /\ kpc = "idle"
    /\ LET searchResult ==
               searchProductsWithGeminiTs(kIn.customerInput, kIn.strategy, kIn.reply)
       IN IF ~searchResult.success
          THEN /\ kOut' = ChainResult(<< >>, [stored |-> 0, errors |-> <<searchResult.error>>],
                                      FALSE)
               /\ kpc' = "returned"
               /\ UNCHANGED <<kProducts, kIdx>>
          ELSE IF kIn.storeResults /\ Len(searchResult.products) > 0
          THEN /\ kProducts' = searchResult.products
               /\ kIdx' = 1
               /\ kpc' = "storing"
               /\ kOut' = kOut
          ELSE /\ kProducts' = searchResult.products
               /\ kOut' = ChainResult(searchResult.products,
                                      [stored |-> 0, errors |-> << >>], TRUE)
               /\ kpc' = "returned"
               /\ kIdx' = kIdx
    /\ UNCHANGED <<kIn, kResults, kAnswers>>
    /\ UNCHANGED <<rankerVars, filterVars, scorerVars, lateVars, otherThanChain>>

\* one iteration of the loop of storeGeminiProducts with createProduct run
\* through; after the last product both functions return
ChainCreateProduct ==
    /\ kpc = "storing"
    /\ \E insert \in InsertOutcomes :
          LET p == kProducts[kIdx]
              error == createProduct(ProductData(p), insert)
              results == StoreOne(kResults, p, IF error = "" THEN "stored" ELSE "error")
          IN /\ kAnswers' = Append(kAnswers, [name |-> p.name, error |-> error])
             /\ kResults' = results
             /\ IF kIdx < Len(kProducts)
                THEN /\ kIdx' = kIdx + 1
                     /\ UNCHANGED <<kpc, kOut>>
                ELSE /\ kOut' = ChainResult(kProducts, results, TRUE)
                     /\ kpc' = "returned"
                     /\ kIdx' = kIdx
    /\ UNCHANGED <<kIn, kProducts>>
    /\ UNCHANGED <<rankerVars, filterVars, scorerVars, lateVars, otherThanChain>>

(***************************************************************************)
(* The Home page (pages/Home.tsx) with its ProductSearch form              *)
(***************************************************************************)
\* ids of the products a search can return
HomeIds == {"1", "2"}

\* a recommendation request in flight: its number, the selection it was sent
\* with and the number of the search results that were on display at the click
Analysis(n, selected, results) == [n |-> n, products |-> selected, results |-> results]

NoRecommendations == [products |-> {}, results |-> 0]

HomeInit ==
    /\ hProducts = {}
    /\ hResultsNo = 0
    /\ hSelected = {}
    /\ hLoading = FALSE
    /\ hRecs = NoRecommendations
    /\ hShow = FALSE
    /\ hSearching = 0
    /\ hSearches = 0
    /\ hAnalyzing = {}
    /\ hAnalyses = 0

\* ProductSearch.handleSearch up to `await searchProducts(...)`; the submit
\* button is never disabled
SubmitSearch ==
    /\ hSearches < MaxSearches
    /\ \E query \in {"", "   ", "phone"} :
          IF Trim(query) = ""
          THEN UNCHANGED <<hLoading, hSearching, hSearches>>
          ELSE /\ hLoading' = TRUE
               /\ hSearching' = hSearching + 1
               /\ hSearches' = hSearches + 1
    /\ UNCHANGED <<hProducts, hResultsNo, hSelected, hRecs, hShow, hAnalyzing, hAnalyses>>
    /\ UNCHANGED <<rankerVars, filterVars, scorerVars, lateVars, otherThanHome>>

\* searchProducts resolves: onSearchResults(results), i.e. handleSearchResults,
\* then the finally block
SearchResolved ==
    /\ hSearching > 0
    /\ \E products \in SUBSET HomeIds :
          /\ hProducts' = products
          /\ hResultsNo' = hResultsNo + 1
    /\ hSelected' = {}
    /\ hShow' = FALSE
    /\ hLoading' = FALSE
    /\ hSearching' = hSearching - 1
    /\ UNCHANGED <<hRecs, hSearches, hAnalyzing, hAnalyses>>
    /\ UNCHANGED <<rankerVars, filterVars, scorerVars, lateVars, otherThanHome>>

\* searchProducts rejects: the catch block, then the finally block
SearchFailed ==
    /\ hSearching > 0
    /\ hLoading' = FALSE
    /\ hSearching' = hSearching - 1
    /\ UNCHANGED <<hProducts, hResultsNo, hSelected, hRecs, hShow, hSearches,
                   hAnalyzing, hAnalyses>>
    /\ UNCHANGED <<rankerVars, filterVars, scorerVars, lateVars, otherThanHome>>

\* handleProductSelect on a product of the grid
SelectProduct ==
    /\ \E id \in hProducts :
          hSelected' = IF id \in hSelected THEN hSelected \ {id} ELSE hSelected \cup {id}
    /\ UNCHANGED <<hProducts, hResultsNo, hLoading, hRecs, hShow, hSearching, hSearches,
                   hAnalyzing, hAnalyses>>
    /\ UNCHANGED <<rankerVars, filterVars, scorerVars, lateVars, otherThanHome>>

\* the Analyze button (rendered with products and a selection, disabled while
\* isLoading) and handleGenerateRecommendations up to `await generateRecommendations`
ClickAnalyze ==
    /\ hProducts # {}
    /\ hSelected # {}
    /\ ~hLoading
    /\ hAnalyses < MaxAnalyses
    /\ hLoading' = TRUE
    /\ hAnalyses' = hAnalyses + 1
    /\ hAnalyzing' = hAnalyzing \cup {Analysis(hAnalyses + 1, hSelected, hResultsNo)}
    /\ UNCHANGED <<hProducts, hResultsNo, hSelected, hRecs, hShow, hSearching, hSearches>>
    /\ UNCHANGED <<rankerVars, filterVars, scorerVars, lateVars, otherThanHome>>

\* generateRecommendations resolves: setRecommendations, setShowRecommendations(true),
\* then the finally block
AnalysisResolved ==
    /\ \E a \in hAnalyzing :
          /\ hRecs' = [products |-> a.products, results |-> a.results]
          /\ hAnalyzing' = hAnalyzing \ {a}
    /\ hShow' = TRUE
    /\ hLoading' = FALSE
    /\ UNCHANGED <<hProducts, hResultsNo, hSelected, hSearching, hSearches, hAnalyses>>
    /\ UNCHANGED <<rankerVars, filterVars, scorerVars, lateVars, otherThanHome>>

\* generateRecommendations rejects: the catch block, then the finally block
AnalysisFailed ==
    /\ \E a \in hAnalyzing : hAnalyzing' = hAnalyzing \ {a}
    /\ hLoading' = FALSE
    /\ UNCHANGED <<hProducts, hResultsNo, hSelected, hRecs, hShow, hSearching, hSearches,
                   hAnalyses>>
    /\ UNCHANGED <<rankerVars, filterVars, scorerVars, lateVars, otherThanHome>>

IdleFilter ==
    /\ fIn = << >> /\ fStrategy = << >> /\ fOut = << >> /\ fpc = "off"
IdleScorer ==
    /\ sIn = << >> /\ sOut = Num(0) /\ spc = "off"
IdleRanker ==
    /\ prodOf = << >> /\ anOf = << >> /\ pc = "off" /\ req = << >> /\ idx = 0
    /\ product = Null /\ recommendations = << >> /\ res = NoResponse /\ calls = << >>

IdlePair ==
    /\ gIn = << >> /\ gpc = << >> /\ gIdx = << >> /\ gProduct = << >>
    /\ gRecs = << >> /\ gOut = << >> /\ sortMemo = {}

IdleJustify ==
    /\ jIn = << >> /\ jOut = << >> /\ jpc = "off"

IdleStore ==
    /\ stIn = << >> /\ stIdx = 0 /\ stResults = << >> /\ stCalls = << >>
    /\ stDb = << >> /\ stpc = "off"

IdleSearch ==
    /\ srIn = << >> /\ srThrown = "" /\ srOut = << >> /\ srpc = "off"

IdleRoutes ==
    /\ rtReq = << >> /\ rtRes = << >> /\ rtCalls = << >> /\ rtDb = << >> /\ rtpc = "off"

IdleLate == IdlePair /\ IdleJustify /\ IdleStore /\ IdleSearch /\ IdleRoutes

IdleTransform == tIn = << >> /\ tOut = Threw /\ tpc = "off"

IdleBatch ==
    /\ bIn = << >> /\ bI = 0 /\ bAll = << >> /\ bpc = "off" /\ mBatch = << >>
    /\ mIdx = 0 /\ mResults = << >> /\ mCreated = << >> /\ bLog = << >>

IdleChain ==
    /\ kIn = << >> /\ kProducts = << >> /\ kIdx = 0 /\ kResults = << >>
    /\ kAnswers = << >> /\ kOut = << >> /\ kpc = "off"

\* the Home page not mounted
IdleHome ==
    /\ hProducts = {} /\ hResultsNo = 0 /\ hSelected = {} /\ hLoading = FALSE
    /\ hRecs = NoRecommendations /\ hShow = FALSE /\ hSearching = 0 /\ hSearches = 0
    /\ hAnalyzing = {} /\ hAnalyses = 0

IdleMore == IdleTransform /\ IdleBatch /\ IdleChain /\ IdleHome

Init == RankerInit /\ IdleFilter /\ IdleScorer /\ IdleLate /\ IdleMore

Next ==
    \/ GetRecommendations
    \/ AwaitProduct
    \/ AwaitAnalysis

Spec == Init /\ [][Next]_vars

\* The same handler over a store of four ids that all resolve: enough products
\* for two of them to tie while two others differ.
IdsWide == {"1", "2", "3", "4"}

ResolvableCatalogue == { e \in Catalogue : e[1].tag = "ok" /\ e[2].tag = "ok" }

RankerInitWide ==
    /\ \E store \in [IdsWide -> ResolvableCatalogue] :
          /\ prodOf = [id \in IdsWide |-> store[id][1]]
          /\ anOf = [id \in IdsWide |-> store[id][2]]
    /\ pc = "idle"
    /\ req = [isArray |-> FALSE, products |-> << >>, strategy |-> ""]
    /\ idx = 0
    /\ product = Null
    /\ recommendations = << >>
    /\ res = NoResponse
    /\ calls = << >>

InitWide == RankerInitWide /\ IdleFilter /\ IdleScorer /\ IdleLate /\ IdleMore

NextWide ==
    \/ GetRecommendationsWide
    \/ AwaitProduct
    \/ AwaitAnalysis

SpecWide == InitWide /\ [][NextWide]_vars

InitFilter == IdleRanker /\ FilterInit /\ IdleScorer /\ IdleLate /\ IdleMore

NextFilter == RunFilter

SpecFilter == InitFilter /\ [][NextFilter]_vars

InitScore == IdleRanker /\ IdleFilter /\ ScorerInit /\ IdleLate /\ IdleMore

NextScore == RunScorer

SpecScore == InitScore /\ [][NextScore]_vars

\* two calls of generateRecommendations, their continuations interleaved
InitPair ==
    PairInit /\ IdleFilter /\ IdleScorer /\ IdleJustify /\ IdleStore /\ IdleSearch
    /\ IdleRoutes /\ IdleMore

NextPair ==
    \/ CallGenerateAny
    \/ GenerateAwaitProductAny
    \/ GenerateAwaitAnalysisAny

SpecPair == InitPair /\ [][NextPair]_vars

\* pros, cons and confidence of one analysis
InitJustify ==
    IdleRanker /\ IdleFilter /\ IdleScorer /\ IdlePair /\ JustifyInit /\ IdleStore
    /\ IdleSearch /\ IdleRoutes /\ IdleMore

NextJustify == RunJustify

SpecJustify == InitJustify /\ [][NextJustify]_vars

\* one call of storeGeminiProducts
InitStore ==
    IdleRanker /\ IdleFilter /\ IdleScorer /\ IdlePair /\ IdleJustify /\ StoreInit
    /\ IdleSearch /\ IdleRoutes /\ IdleMore

NextStore ==
    \/ CallStoreGeminiProducts
    \/ AwaitCreateProduct

SpecStore == InitStore /\ [][NextStore]_vars

\* one call of searchProductsWithGemini, of either implementation
InitSearch ==
    IdleRanker /\ IdleFilter /\ IdleScorer /\ IdlePair /\ IdleJustify /\ IdleStore
    /\ SearchInit /\ IdleRoutes /\ IdleMore

NextSearch ==
    \/ RunSearchStatic
    \/ RunSearchGemini

SpecSearch == InitSearch /\ [][NextSearch]_vars

\* one request to POST /search or POST /search-only
InitRoutes ==
    IdleRanker /\ IdleFilter /\ IdleScorer /\ IdlePair /\ IdleJustify /\ IdleStore
    /\ IdleSearch /\ RoutesInit /\ IdleMore

NextRoutes ==
    \/ PostSearch
    \/ PostSearchOnly

SpecRoutes == InitRoutes /\ [][NextRoutes]_vars

\* the controller, the filter, the scorer and the components of lateVars at rest
IdleEarly == IdleRanker /\ IdleFilter /\ IdleScorer /\ IdleLate

\* one call of transformGeminiToSupabase
InitTransform == IdleEarly /\ TransformInit /\ IdleBatch /\ IdleChain /\ IdleHome

NextTransform == RunTransform

SpecTransform == InitTransform /\ [][NextTransform]_vars

\* one call of batchProcessGeminiProducts
InitBatch == IdleEarly /\ IdleTransform /\ BatchInit /\ IdleChain /\ IdleHome

NextBatch ==
    \/ CallBatchProcess
    \/ BatchLoop
    \/ StoreItem

SpecBatch == InitBatch /\ [][NextBatch]_vars

\* the same with every step the event loop owes taken: a pending await resumes
SpecBatchLive == SpecBatch /\ WF_vars(NextBatch)

\* one call of searchAndStoreProducts
InitChain == IdleEarly /\ IdleTransform /\ IdleBatch /\ ChainInit /\ IdleHome

NextChain ==
    \/ CallSearchAndStore
    \/ ChainCreateProduct

SpecChain == InitChain /\ [][NextChain]_vars

\* the Home page after mounting, the user and the two kinds of request
InitHome == IdleEarly /\ IdleTransform /\ IdleBatch /\ IdleChain /\ HomeInit

NextHome ==
    \/ SubmitSearch
    \/ SearchResolved
    \/ SearchFailed
    \/ SelectProduct
    \/ ClickAnalyze
    \/ AnalysisResolved
    \/ AnalysisFailed

SpecHome == InitHome /\ [][NextHome]_vars

(***************************************************************************)
(* Properties                                                              *)
(***************************************************************************)
\* the handler answered with a recommendation list
Answered == pc = "done" /\ res.status = 200

OutIds == [ k \in 1..Len(res.body) |-> res.body[k].productId ]

Count(seq, x) == Cardinality({ k \in 1..Len(seq) : seq[k] = x })

\* both resolvers find the id
Resolves(id) == prodOf[id].tag = "ok" /\ anOf[id].tag = "ok"

ValidRequest ==
    req.isArray /\ Len(req.products) > 0 /\ req.strategy \in Strategies

\* C1: in every non-empty output for one of the three strategies the rankings
\* are exactly 1..N and the score does not increase with the ranking.
C1_RankingDenseScoreOrdered ==
    (Answered /\ req.strategy \in Strategies /\ Len(res.body) >= 1) =>
        /\ { res.body[k].ranking : k \in 1..Len(res.body) } = 1..Len(res.body)
        /\ \A i, j \in 1..Len(res.body) :
              res.body[i].ranking < res.body[j].ranking
                 => JsGeq(res.body[i].score, res.body[j].score)

\* C2: for each of the three strategies the score of a valid input is a number
\* in [0,1] (0..100 hundredths).
C2_ScoreInUnitInterval ==
    (spc = "done" /\ sIn.strategy \in Strategies) =>
        (IsNum(sOut) /\ sOut.v >= 0 /\ sOut.v <= 100)

\* C3: cost-effective with totalComments = 0 gives a defined number, and 0.00 for
\* price 2000, rating 0 and no matching keyword.
C3_NoReviewsScoreDefined ==
    (spc = "done" /\ sIn.strategy = "cost-effective" /\ sIn.analysis.totalComments = 0) =>
        /\ IsNum(sOut)
        /\ (sIn.product.price = 2000 /\ sIn.analysis.averageRating = 0
            /\ sIn.analysis.topKeywords = << >>) => sOut = Num(0)

\* C4: an id whose product or review aggregate is not found is left out and the
\* call still answers: each input id appears in the output as often as in the
\* input when both resolve and not at all otherwise, and the rankings are 1..N.
C4_NotFoundOmitted ==
    Answered =>
        /\ \A id \in DOMAIN prodOf :
              Count(OutIds, id) = IF Resolves(id) THEN Count(req.products, id) ELSE 0
        /\ \A k \in 1..Len(res.body) : res.body[k].ranking = k

\* three ids asked, the middle one without review aggregate, the other two ranked
C4_Witness ==
    /\ Answered
    /\ Len(req.products) = 3
    /\ prodOf[req.products[2]].tag = "ok"
    /\ anOf[req.products[2]].tag = "null"
    /\ Len(res.body) = 2
    /\ res.body[1].productId = req.products[1]
    /\ res.body[2].productId = req.products[3]
    /\ res.body[1].productId # res.body[2].productId

\* C5: a resolution that throws is caught for its product only: a valid request
\* always ends with a recommendation list, every id of it having been resolved,
\* and the list holds the ids that resolved.
C5_ThrowCaughtPerProduct ==
    (pc = "done" /\ ValidRequest) =>
        /\ res.status = 200
        /\ \A n \in 1..Len(req.products) :
              \E c \in 1..Len(calls) :
                 calls[c] = Call("getProductById", req.products[n])
        /\ \A id \in DOMAIN prodOf :
              Count(OutIds, id) = IF Resolves(id) THEN Count(req.products, id) ELSE 0

\* C6: a strategy that is none of the three is rejected before any product is
\* resolved, and never answered with a recommendation list.
C6_UnknownStrategyRejected ==
    (pc # "idle" /\ req.strategy \notin Strategies) =>
        (calls = << >> /\ res.status # 200)

\* C7: an empty product id list is answered with an empty list, as a success.
C7_EmptyListAnswersEmpty ==
    (pc = "done" /\ req.isArray /\ Len(req.products) = 0 /\ req.strategy \in Strategies) =>
        (res.status = 200 /\ Len(res.body) = 0)

\* the score the call computes for a resolvable id
ScoreOfId(id) == calculateStrategyScore(prodOf[id].val, anOf[id].val, req.strategy)

IsSet(x) == x.tag = "num"

\* C8: every candidate the filter returns satisfies every constraint set on the
\* strategy, a maxPrice of 0 included.
C8_SurvivorsMeetAllConstraints ==
    fpc = "done" =>
        \A k \in 1..Len(fOut) :
            /\ IsSet(fStrategy.maxPrice) => fOut[k].price.v <= fStrategy.maxPrice.v
            /\ IsSet(fStrategy.minPrice) => fOut[k].price.v >= fStrategy.minPrice.v
            /\ IsSet(fStrategy.minRating) => fOut[k].rating.v >= fStrategy.minRating.v
            /\ fStrategy.preferredBrands # {} => fOut[k].brand \in fStrategy.preferredBrands
            /\ fStrategy.excludedBrands # {} => fOut[k].brand \notin fStrategy.excludedBrands

\* non-empty name, brand and category, a price that is a number >= 0 (0 included),
\* a rating that is absent or a number in [0,5]
StructurallyValid(c) ==
    /\ c.name # "" /\ c.brand # "" /\ c.category # ""
    /\ c.price.tag = "num" /\ c.price.v >= 0
    /\ (c.rating.tag = "undef" \/ (c.rating.tag = "num" /\ c.rating.v >= 0 /\ c.rating.v <= 50))

Unconstrained(strategy) ==
    /\ ~IsSet(strategy.maxPrice) /\ ~IsSet(strategy.minPrice) /\ ~IsSet(strategy.minRating)
    /\ strategy.preferredBrands = {} /\ strategy.excludedBrands = {}

\* C9: with no constraint set the filter returns exactly the structurally valid
\* candidates, a price of 0 included, in input order.
C9_UnconstrainedKeepsAllValid ==
    (fpc = "done" /\ Unconstrained(fStrategy)) =>
        LET valid == SelectSeq(fIn, StructurallyValid)
        IN fOut = [ k \in 1..Len(valid) |-> NormalizeCandidate(valid[k]) ]

RECURSIVE PushedAlone(_, _, _)
PushedAlone(productIds, strategy, n) ==
    IF n = 0 THEN << >>
    ELSE LET rest == PushedAlone(productIds, strategy, n - 1)
             p == getProductById(productIds[n])
             a == getCommentAnalysis(productIds[n])
         IN IF p.tag = "null" \/ a.tag = "null" THEN rest
            ELSE Append(rest, Recommendation(productIds[n], p.val, a.val, strategy))

\* the lists a call can return when it runs alone
ReturnsAlone(request) ==
    { AssignRankings(sorted) :
        sorted \in SortOutcomes(PushedAlone(request.productIds, request.strategy,
                                            Len(request.productIds))) }

\* C19: two invocations of generateRecommendations whose resolutions interleave
\* share no mutable state: each returns exactly the list it returns when run
\* alone on its inputs, and holds no recommendation of a product id the other
\* request asked for and it did not.
C19_InvocationsIndependent ==
    \A i \in Invocations :
        gpc[i] = "returned" =>
            /\ gOut[i] \in ReturnsAlone(gIn[i])
            /\ \A k \in 1..Len(gOut[i]) :
                   \E n \in 1..Len(gIn[i].productIds) :
                      gIn[i].productIds[n] = gOut[i][k].productId

\* the second invocation has returned its list while the first, a different
\* request, is in the middle of its loop with a recommendation already pushed
C19_Witness ==
    /\ gpc[2] = "returned" /\ Len(gOut[2]) = 1
    /\ gpc[1] = "getAnalysis" /\ gIdx[1] = 2 /\ Len(gRecs[1]) = 1
    /\ gOut[2][1].productId # gRecs[1][1].productId

\* C12: the pros are the first 3 entries of positiveAspects in their order (all
\* of them when there are fewer), and the generic two-item list when
\* positiveAspects is empty; pros is never empty and never longer than 3.
C12_ProsFirstThreeOrGeneric ==
    jpc = "done" =>
        /\ jOut.pros = IF jIn.positiveAspects = << >>
                       THEN <<"Good overall quality", "Reliable performance">>
                       ELSE [ k \in 1..Min(3, Len(jIn.positiveAspects)) |->
                                jIn.positiveAspects[k] ]
        /\ Len(jOut.pros) >= 1
        /\ Len(jOut.pros) <= 3

\* C13: the cons are the first 2 entries of commonIssues in their order (all of
\* them when there are fewer), and the generic one-item list when commonIssues
\* is empty; cons is never empty and never longer than 2.
C13_ConsFirstTwoOrGeneric ==
    jpc = "done" =>
        /\ jOut.cons = IF jIn.commonIssues = << >>
                       THEN <<"Minor issues reported">>
                       ELSE [ k \in 1..Min(2, Len(jIn.commonIssues)) |->
                                jIn.commonIssues[k] ]
        /\ Len(jOut.cons) >= 1
        /\ Len(jOut.cons) <= 2

RECURSIVE FailedCalls(_, _)
FailedCalls(log, n) ==
    IF n = 0 THEN << >>
    ELSE IF log[n].outcome = "stored" THEN FailedCalls(log, n - 1)
    ELSE Append(FailedCalls(log, n - 1), log[n])

\* C15: storeGeminiProducts attempts every product exactly once, in input order,
\* whatever createProduct did for the earlier ones (returned an error or threw);
\* it never throws; each failed item adds one message to errors and each stored
\* item one to stored; on return stored + length(errors) = length(products).
C15_StoreEveryItemOnce ==
    stpc # "off" =>
        LET failed == FailedCalls(stCalls, Len(stCalls))
        IN /\ stpc # "raised"
           /\ Len(stCalls) <= Len(stIn)
           /\ \A k \in 1..Len(stCalls) : stCalls[k].name = stIn[k].name
           /\ stResults.stored = Len(stCalls) - Len(failed)
           /\ Len(stResults.errors) = Len(failed)
           /\ \A k \in 1..Len(failed) : stResults.errors[k].name = failed[k].name
           /\ stpc = "returned" =>
                 /\ Len(stCalls) = Len(stIn)
                 /\ stResults.stored + Len(stResults.errors) = Len(stIn)

\* three products: createProduct threw for the first, returned an error for the
\* second and stored the third
C15_Witness ==
    /\ stpc = "returned"
    /\ Len(stIn) = 3
    /\ stCalls[1].outcome = "throw"
    /\ stCalls[2].outcome = "error"
    /\ stCalls[3].outcome = "stored"
    /\ stResults.stored = 1
    /\ Len(stResults.errors) = 2

C18_RaisesOnBadInput ==
    srpc = "static" =>
        LET emptyQuery == srIn.customerInput = Query("string", "")
            nonEmptyQuery == srIn.customerInput.kind = "string"
                             /\ srIn.customerInput.text # ""
            validStrategy == TypeOf(srIn.strategy) \in Strategies
        IN /\ (emptyQuery \/ ~validStrategy) => srOut.outcome = "raised"
           /\ (nonEmptyQuery /\ validStrategy) => srOut.outcome = "returned"

\* the requests C16 names: strategy missing, unknown strategy type, negative
\* maxPrice or minPrice, minRating outside [0,5]
InvalidStrategyRequest(body) ==
    \/ StrategyMissing(body.strategy)
    \/ TypeOf(body.strategy) \notin Strategies
    \/ (body.strategy.val.maxPrice.tag = "num" /\ body.strategy.val.maxPrice.v < 0)
    \/ (body.strategy.val.minPrice.tag = "num" /\ body.strategy.val.minPrice.v < 0)
    \/ (body.strategy.val.minRating.tag = "num"
          /\ (body.strategy.val.minRating.v < 0 \/ body.strategy.val.minRating.v > 50))

\* C16: on POST /search and POST /search-only a request with a missing strategy,
\* an unknown strategy type, a negative maxPrice or minPrice, or a minRating
\* outside [0,5] is answered with a validation error before any search function
\* is called; nothing is searched and nothing is stored for it.
C16_InvalidStrategyRejectedFirst ==
    (rtpc \in {"search", "search-only"} /\ InvalidStrategyRequest(rtReq)) =>
        /\ rtRes.status = 400
        /\ rtCalls = << >>
        /\ rtDb = << >>
\* C21: under the fancy strategy the score is
\* round2(0.30 * brandScore + 0.25 * min(1, P/100) + 0.25 * min(1, Q/500)
\* + 0.20 * min(1, D/100)) with halves rounded up, brandScore the table value of
\* the brand or 0.5, P and D the premium and design keyword frequencies and Q
\* the mentions of the first quality indicator or 0; brand Apple with no
\* keyword and no quality data scores 0.29.
C21_FancyFormula ==
    (spc = "done" /\ sIn.strategy = "fancy") =>
        LET brandTable == [ b \in {"Apple", "Samsung", "Google", "OnePlus", "Xiaomi"} |->
                              CASE b = "Apple" -> 95 [] b = "Samsung" -> 90
                                [] b = "Google" -> 85 [] b = "OnePlus" -> 80
                                [] OTHER -> 70 ]
            brandScore == IF sIn.product.brand \in DOMAIN brandTable
                          THEN brandTable[sIn.product.brand] ELSE 50
            P == countKeywordMentions(sIn.analysis.topKeywords, PremiumWords)
            D == countKeywordMentions(sIn.analysis.topKeywords, DesignWords)
            Q == IF sIn.analysis.qualityIndicators = << >> THEN 0
                 ELSE sIn.analysis.qualityIndicators[1].mentions
            \* the sum in units of 1/50000: half of a hundredth is 250
            sum == 15000 * brandScore + 12500 * Min(100, P) + 2500 * Min(500, Q)
                   + 10000 * Min(100, D)
        IN /\ sOut = Num((sum + 25000) \div 50000)
           /\ (sIn.product.brand = "Apple" /\ sIn.analysis.topKeywords = << >>
                 /\ sIn.analysis.qualityIndicators = << >>) => sOut = Num(29)

\* C22: every recommendation returned by generateRecommendations carries a
\* reasoning list of 2 or 3 entries, whatever strategy value the call was given.
C22_ReasoningTwoOrThree ==
    (pc = "done" /\ res.status = 200) =>
        \A k \in 1..Len(res.body) : Len(res.body[k].reasoning) \in {2, 3}

\* C24: for every Gemini product that transformGeminiToSupabase accepts without
\* throwing, the transformed record has price >= 0, rating in [0,5] and
\* reviewCount >= 0, whatever the input's price, rating and reviewCount are
\* (negative, above 5, missing, or not parseable as a number).
C24_TransformedInRange ==
    (tpc = "done" /\ tOut.tag = "ok") =>
        /\ tOut.price.tag = "num" /\ tOut.price.v >= 0
        /\ tOut.rating.tag = "num" /\ tOut.rating.v >= 0 /\ tOut.rating.v <= 50
        /\ tOut.reviewCount.tag = "num" /\ tOut.reviewCount.v >= 0

\* the products of the first n logged calls, one batch after the other
RECURSIVE LoggedProducts(_, _)
LoggedProducts(log, n) ==
    IF n = 0 THEN << >> ELSE LoggedProducts(log, n - 1) \o log[n].batch

\* what the first n logged calls add up to: a call that returned adds its
\* result, a call that rejected adds the one error of its batch
RECURSIVE LoggedResults(_, _, _)
LoggedResults(log, batchSize, n) ==
    IF n = 0 THEN [stored |-> 0, errors |-> << >>, products |-> << >>]
    ELSE LET before == LoggedResults(log, batchSize, n - 1)
             r == log[n].result
         IN IF r = Threw
            THEN [before EXCEPT !.errors =
                     Append(@, [kind |-> "Batch failed", name |-> Num(n),
                                message |-> "TypeError"])]
            ELSE [ stored |-> before.stored + r.stored,
                   errors |-> before.errors \o r.errors,
                   products |-> before.products \o r.products ]

\* C23: with batchSize >= 1 batchProcessGeminiProducts passes every input
\* product to storeGeminiProductsWithMetadata exactly once, in input order, in
\* consecutive batches of batchSize products (the last one may be shorter); a
\* batch that fails as a whole adds one error and the following batches are
\* still processed; stored, errors and products are the per-batch results
\* put together in batch order.
C23_BatchesCoverInputInOrder ==
    (bpc = "returned" /\ bIn.batchSize >= 1) =>
        /\ LoggedProducts(bLog, Len(bLog)) = bIn.products
        /\ \A k \in 1..Len(bLog) :
              /\ Len(bLog[k].batch) >= 1
              /\ Len(bLog[k].batch) <= bIn.batchSize
              /\ (k < Len(bLog) => Len(bLog[k].batch) = bIn.batchSize)
        /\ bAll = LoggedResults(bLog, bIn.batchSize, Len(bLog))

\* three products in batches of two: the first batch failed as a whole, the
\* second one stored its product
C23_Witness ==
    /\ bpc = "returned"
    /\ bIn.batchSize = 2
    /\ Len(bIn.products) = 3
    /\ Len(bLog) = 2
    /\ bLog[1].result = Threw
    /\ bLog[2].result # Threw
    /\ bLog[2].result.stored = 1
    /\ bAll.stored = 1
    /\ Len(bAll.errors) = 1

\* a product that is transformed without a throw and whose transformed price
\* is <= 0 or whose name, brand or category is empty
Unstorable(g) ==
    /\ g # Null
    /\ LET t == transformGeminiToSupabase(g)
       IN /\ t.tag = "ok"
          /\ (t.price.v <= 0 \/ t.name = "" \/ t.brand = "" \/ t.category = "")

\* C25: storeGeminiProductsWithMetadata never calls createProduct for a product
\* whose transformed price is <= 0 or whose name, brand or category is empty;
\* such a product adds exactly one entry to errors, the products after it are
\* still processed, and on return stored = length(products) and
\* stored + length(errors) = length(input).
C25_UnstorableSkippedAndCounted ==
    /\ \A c \in { mCreated[j] : j \in 1..Len(mCreated) }
              \cup UNION { { bLog[k].created[j] : j \in 1..Len(bLog[k].created) } :
                           k \in 1..Len(bLog) } :
          /\ c.data.price.tag = "num" /\ c.data.price.v > 0
          /\ c.data.name # "" /\ c.data.brand # "" /\ c.data.category # ""
    /\ \A k \in 1..Len(bLog) :
          bLog[k].result # Threw =>
              LET r == bLog[k].result
                  batch == bLog[k].batch
                  rejected == { j \in 1..Len(r.errors) :
                                  r.errors[j].message \in
                                      { "Missing required fields (name, brand, or category)",
                                        "Invalid price: must be greater than 0" } }
              IN /\ r.stored = Len(r.products)
                 /\ r.stored + Len(r.errors) = Len(batch)
                 /\ Cardinality(rejected)
                      = Cardinality({ j \in 1..Len(batch) : Unstorable(batch[j]) })

\* a call returned whose first product has price 0 and whose second product
\* was stored after it
C25_Witness ==
    \E k \in 1..Len(bLog) :
        /\ bLog[k].result # Threw
        /\ Len(bLog[k].batch) = 2
        /\ Unstorable(bLog[k].batch[1])
        /\ bLog[k].batch[1].price = Num(0)
        /\ bLog[k].result.stored = 1
        /\ Len(bLog[k].result.errors) = 1
        /\ Len(bLog[k].created) = 1

\* C26: batchProcessGeminiProducts terminates for every finite product list and
\* every integer batchSize, 0 and negative values included.
C26_BatchTerminates == <>(bpc = "returned")

\* a returned candidate read as an input of the filter: the snake_case
\* properties the returned object does not have read as undefined
AsCandidate(n) ==
    [ name |-> n.name, price |-> n.price, brand |-> n.brand, category |-> n.category,
      rating |-> n.rating,
      imageUrl |-> n.imageUrl, image_url |-> "",
      productUrl |-> n.productUrl, product_url |-> "",
      reviewCount |-> n.reviewCount, review_count |-> Undefined,
      sourcePlatform |-> n.sourcePlatform, source_platform |-> "",
      description |-> n.description, features |-> n.features,
      specifications |-> n.specifications ]

\* C27: validateAndFilterProducts is idempotent for a fixed strategy: applied to
\* its own output it returns that output unchanged (same candidates, same
\* order, same field values).
C27_FilterIdempotent ==
    fpc = "done" =>
        validateAndFilterProducts([ k \in 1..Len(fOut) |-> AsCandidate(fOut[k]) ],
                                  fStrategy) = fOut

\* a survivor that the normalisation changed: its rating was missing and is
\* now 0, its image url came from image_url, and a minRating of 0 is set
C27_Witness ==
    /\ fpc = "done"
    /\ Len(fIn) = 2
    /\ Len(fOut) = 2
    /\ fIn[1].rating = Undefined
    /\ fOut[1].rating = Num(0)
    /\ fIn[1].imageUrl = ""
    /\ fOut[1].imageUrl = "https://example.com/lamp.jpg"
    /\ fOut[2].rating = Num(45)
    /\ fStrategy.minRating = Num(0)

\* C28: every candidate that survives validateAndFilterProducts passes the
\* field validation of createProduct when searchAndStoreProducts stores it: the
\* only storage errors are database errors.
C28_SurvivorsPassCreateValidation ==
    \A j \in 1..Len(kAnswers) : kAnswers[j].error \in {"", "Database error"}

\* C29: on the Home page isLoading is true in every state in which a product
\* search or a recommendation request is still in flight, under every
\* interleaving of a search with a recommendation request.
C29_LoadingWhilePending ==
    (hSearching > 0 \/ hAnalyzing # {}) => hLoading

\* C30: whenever showRecommendations is true the stored recommendations were
\* computed for a selection made from the search results on display: the
\* answer to a request sent before the current results arrived is never shown.
C30_ShownForCurrentResults ==
    hShow => hRecs.results = hResultsNo

====
